---- MODULE Spec2Model ----
(***************************************************************************)
(* Booking lifecycle of the hotel management API (api/bookings.js), with   *)
(* the guests API and the rooms API that create, update and delete the     *)
(* rows the bookings refer to.                                             *)
(*                                                                         *)
(* The store (the hosted database) holds guests, rooms and bookings.  A    *)
(* request runs one handler; a handler is a sequence of store calls, and   *)
(* one action of this module is one store call together with the           *)
(* synchronous code that follows it up to the next await.  Handlers of     *)
(* different processes interleave at store calls only.                     *)
(*                                                                         *)
(* Dates are day numbers; every date of the model is a date that passes    *)
(* Joi's min('now').                                                       *)
(*                                                                         *)
(* The middleware (rate limiters, response cache) keeps its state in the   *)
(* memory of the process; its clock is in milliseconds.                    *)
(***************************************************************************)
EXTENDS Integers, Sequences, FiniteSets, TLC

VARIABLES guests, rooms, bookings, guestEmail, roomNumber, pc, req, loc, resp, pre,
          now, rateLimiter, cache, sent, passes

vars == <<guests, rooms, bookings, guestEmail, roomNumber, pc, req, loc, resp, pre,
          now, rateLimiter, cache, sent, passes>>

(* the state of the middleware module (utils/middleware.js): the clock, the
   records of the rate limiter, the response cache, what the middleware did
   with the last request, and the record of the requests each key got
   through in its current limiter window *)
middleware == <<now, rateLimiter, cache, sent, passes>>

(* the unique columns the handlers check before a write: guests.email and
   rooms.room_number *)
keys == <<guestEmail, roomNumber>>

store == <<guests, rooms, bookings, keys>>

-----------------------------------------------------------------------------
(* Bounds of the model *)

MaxBookings == 2
MaxDate == 2
MaxRows == 3

Procs == {1, 2}
GuestIds == {1, 2}
RoomIds == {1, 2, 3}
Dates == 1..MaxDate
Amounts == {0, 150}
NoId == 0
BookingIdInputs == 0..MaxBookings
Emails == {"a", "b"}
RoomNumbers == {"101", "102", "103"}
(* client keys of the limiter: x-forwarded-for or the remote address *)
Ips == {"a", "b"}

RowIdInputs == 0..MaxRows

-----------------------------------------------------------------------------
(* Responses of the handlers *)

MsgValidation == "Validation failed"
MsgIdRequired == "Booking ID is required"
MsgGuestNotFound == "Guest not found"
MsgRoomNotFound == "Room not found"
MsgRoomUnavailable == "Room is not available"
MsgConflict == "Room is already booked for these dates"
MsgCreateFailed == "Failed to create booking"
MsgBookingNotFound == "Booking not found"
MsgOnlyBooked == "Only booked reservations can be checked in"
MsgCheckInFailed == "Failed to check in guest"
MsgOnlyCheckedIn == "Only checked-in guests can be checked out"
MsgCheckOutFailed == "Failed to check out guest"
MsgCancelCheckedIn == "Cannot cancel a booking for a checked-in guest"
MsgCancelCancelled == "Booking is already cancelled"
MsgCancelCompleted == "Cannot cancel a completed booking"
MsgCancelFailed == "Failed to cancel booking"
MsgInternal == "Internal server error"
MsgGuestIdRequired == "Guest ID is required"
MsgEmailRegistered == "Email already registered"
MsgGuestCreateFailed == "Failed to create guest"
MsgGuestUpdateFailed == "Failed to update guest"
MsgGuestHasActive == "Cannot delete guest with active bookings"
MsgGuestDeleteFailed == "Failed to delete guest"
MsgGuestDeleted == "Guest deleted successfully"
MsgRoomIdRequired == "Room ID is required"
MsgRoomNumberExists == "Room number already exists"
MsgRoomCreateFailed == "Failed to create room"
MsgRoomUpdateFailed == "Failed to update room"
MsgRoomHasActive == "Cannot delete room with active bookings"
MsgRoomDeleteFailed == "Failed to delete room"
MsgRoomDeleted == "Room deleted successfully"
MsgUpdateFailed == "Failed to update booking"
MsgUpdated == "updated"
MsgMethodNotAllowed == "Method not allowed"
MsgListFailed == "Failed to fetch bookings"
MsgCreated == "created"
MsgCheckedIn == "Guest checked in successfully"
MsgCheckedOut == "Guest checked out successfully"
MsgCancelled == "Booking cancelled successfully"

(* data: the rows of a list response, as the ids of the bookings *)
NoResp == [code |-> 0, msg |-> "", id |-> 0, data |-> <<>>]

Response(code, msg, id) == [code |-> code, msg |-> msg, id |-> id, data |-> <<>>]

-----------------------------------------------------------------------------
(* Requests *)

(* api: the file whose handler receives the request; method, action and id:
   req.method, query.action, query.id; the other fields: the body, where 0 and
   "" stand for a field that is absent *)
NoReq == [api |-> "", method |-> "", action |-> "", id |-> 0, guest_id |-> 0,
          room_id |-> 0, check_in_date |-> 0, check_out_date |-> 0,
          total_amount |-> 0, status |-> "", email |-> "", room_number |-> "",
          is_available |-> "", date_from |-> 0, date_to |-> 0, skip |-> -1,
          limit |-> -1]

(* the value of skip and of limit in a query that does not give them *)
NoParam == NoReq.skip

(* handleGetBookings: limit = 100 when the query gives none *)
DefaultLimit == 100

CreateRequests ==
    { [NoReq EXCEPT !.api = "bookings", !.method = "POST", !.guest_id = g,
                    !.room_id = r, !.check_in_date = ci, !.check_out_date = co,
                    !.total_amount = a] :
         g \in GuestIds, r \in RoomIds, ci \in Dates, co \in Dates, a \in Amounts }

IdRequest(method, action, id) ==
    [NoReq EXCEPT !.api = "bookings", !.method = method, !.action = action, !.id = id]

CheckInRequests == { IdRequest("PUT", "checkin", i) : i \in BookingIdInputs }
CheckOutRequests == { IdRequest("PUT", "checkout", i) : i \in BookingIdInputs }
CancelRequests == { IdRequest("DELETE", "", i) : i \in BookingIdInputs }

Statuses == {"booked", "checked_in", "checked_out", "cancelled"}

(* the bodies of PUT requests without action: one field, or room_id and
   status together, or no field; "unknown" is not a status of the schema *)
BookingPatches ==
    { [NoReq EXCEPT !.status = s] : s \in Statuses \cup {"unknown"} }
      \cup { [NoReq EXCEPT !.room_id = r] : r \in {1, 2} }
      \cup { [NoReq EXCEPT !.check_in_date = d] : d \in Dates }
      \cup { [NoReq EXCEPT !.check_out_date = d] : d \in Dates }
      \cup { [NoReq EXCEPT !.room_id = r, !.status = s] : r \in {1, 2}, s \in {"booked", "checked_in"} }
      \cup { NoReq }

UpdateRequests ==
    { [b EXCEPT !.api = "bookings", !.method = "PUT", !.id = i] :
         b \in BookingPatches, i \in BookingIdInputs }

(* GET requests: the filters on status, room and dates absent or given, skip
   and limit absent or 1; and a list of the bookings of guest 2 *)
ListRequests ==
    { [NoReq EXCEPT !.api = "bookings", !.method = "GET", !.status = s,
                    !.room_id = r, !.date_from = df, !.date_to = dt,
                    !.skip = sk, !.limit = li] :
         s \in {"", "cancelled"}, r \in {0, 1}, df \in {0, 2},
         dt \in {0, 1}, sk \in {NoParam, 1}, li \in {NoParam, 1} }
      \cup { [NoReq EXCEPT !.api = "bookings", !.method = "GET", !.guest_id = g] :
                g \in {1, 2} }

(* requests that differ in method and action: a PUT with an action the switch
   does not name, and methods the switch does not name *)
MethodRequests ==
    { IdRequest(m, a, i) : m \in {"GET", "PUT", "DELETE", "OPTIONS", "PATCH", "HEAD"},
                           a \in {"", "checkin", "checkout", "cancel"}, i \in {0, 1} }
      \cup { [IdRequest("PUT", a, i) EXCEPT !.status = "checked_in"] :
                 a \in {"", "cancel"}, i \in {0, 1} }
      \cup { [IdRequest("POST", a, 0) EXCEPT !.guest_id = 1, !.room_id = 1,
                   !.check_in_date = 1, !.check_out_date = 1, !.total_amount = t] :
                 a \in {"", "checkin"}, t \in Amounts }

LifecycleRequests ==
    CreateRequests \cup CheckInRequests \cup CheckOutRequests \cup CancelRequests

(* Requests of the guests API and of the rooms API.  The body carries the
   column the handler checks for uniqueness (and is_available for a room);
   its other fields are present where required and valid.  "" is an absent
   field, "invalid" a value the schema refuses. *)
GuestRequests ==
    { [NoReq EXCEPT !.api = "guests", !.method = "POST", !.email = e] :
         e \in Emails \cup {"invalid"} }
      \cup { [NoReq EXCEPT !.api = "guests", !.method = "PUT", !.id = i, !.email = e] :
                i \in RowIdInputs, e \in Emails \cup {"", "invalid"} }

DeleteGuestRequests ==
    { [NoReq EXCEPT !.api = "guests", !.method = "DELETE", !.id = i] : i \in RowIdInputs }

RoomRequests ==
    { [NoReq EXCEPT !.api = "rooms", !.method = "POST", !.room_number = n] :
         n \in RoomNumbers \cup {"invalid"} }
      \cup { [NoReq EXCEPT !.api = "rooms", !.method = "PUT", !.id = i,
                           !.room_number = n, !.is_available = a] :
                i \in RowIdInputs, n \in RoomNumbers \cup {"", "invalid"},
                a \in {"", "true", "false"} }

DeleteRoomRequests ==
    { [NoReq EXCEPT !.api = "rooms", !.method = "DELETE", !.id = i] : i \in RowIdInputs }

(* handler of the guests API and of the rooms API: the switch on req.method *)
RowRoute(r) ==
    CASE r.method = "POST" -> "create"
      [] r.method = "PUT" -> "update"
      [] r.method = "DELETE" -> "delete"
      [] OTHER -> "other"

(* guestSchema, updateGuestSchema: email is a valid address; a patch may
   leave it out *)
ValidGuest(r) == r.email \in Emails

ValidGuestPatch(r) == r.email \in Emails \cup {""}

(* roomSchema, updateRoomSchema *)
ValidRoom(r) == r.room_number \in RoomNumbers

ValidRoomPatch(r) ==
    /\ r.room_number \in RoomNumbers \cup {""}
    /\ r.is_available \in {"", "true", "false"}

(* faulty variant: DELETE has no case in the switch *)
RouteNoDelete(r) ==
    CASE r.method = "POST" -> "create"
      [] r.method = "PUT" /\ r.action = "checkin" -> "checkin"
      [] r.method = "PUT" /\ r.action = "checkout" -> "checkout"
      [] r.method = "PUT" /\ r.action \notin {"checkin", "checkout"} -> "update"
      [] r.method = "GET" -> "list"
      [] r.method = "OPTIONS" -> "preflight"
      [] OTHER -> "other"

(* handler: the switch on req.method and query.action *)
Route(r) ==
    CASE r.method = "POST" -> "create"
      [] r.method = "PUT" /\ r.action = "checkin" -> "checkin"
      [] r.method = "PUT" /\ r.action = "checkout" -> "checkout"
      [] r.method = "PUT" /\ r.action \notin {"checkin", "checkout"} -> "update"
      [] r.method = "DELETE" -> "cancel"
      [] r.method = "GET" -> "list"
      [] r.method = "OPTIONS" -> "preflight"
      [] OTHER -> "other"

(* bookingSchema: positive ids, check_out_date not before check_in_date,
   positive amount *)
ValidBooking(r) ==
    /\ r.guest_id > 0
    /\ r.room_id > 0
    /\ r.check_out_date >= r.check_in_date
    /\ r.total_amount > 0

(* the keys of bookingSchema that the body violates, in the order of the
   schema *)
BookingViolations(r) ==
    LET Violated(f) ==
          CASE f = "guest_id" -> r.guest_id <= 0
            [] f = "room_id" -> r.room_id <= 0
            [] f = "check_out_date" -> r.check_out_date < r.check_in_date
            [] f = "total_amount" -> r.total_amount <= 0
    IN SelectSeq(<<"guest_id", "room_id", "check_out_date", "total_amount">>, Violated)

(* the message Joi gives for a violated key *)
BookingMessage(f) ==
    CASE f = "guest_id" -> "\"guest_id\" must be a positive number"
      [] f = "room_id" -> "\"room_id\" must be a positive number"
      [] f = "check_out_date" ->
           "\"check_out_date\" must be greater than or equal to \"ref:check_in_date\""
      [] f = "total_amount" -> "\"total_amount\" must be a positive number"

(* error.details.map(d => d.message) after schema.validate(body): validate is
   called without options, so it stops at the first violated key *)
ValidationDetails(violations) ==
    IF violations = <<>> THEN <<>> ELSE <<BookingMessage(Head(violations))>>

(* updateBookingSchema: every field optional, at least one present, ids
   positive, status one of the four *)
PatchFields(r) ==
    { f \in {"guest_id", "room_id", "check_in_date", "check_out_date", "total_amount"} :
         r[f] # 0 } \cup (IF r.status # "" THEN {"status"} ELSE {})

ValidPatch(r) ==
    /\ PatchFields(r) # {}
    /\ r.guest_id >= 0
    /\ r.room_id >= 0
    /\ r.total_amount >= 0
    /\ r.status \in Statuses \cup {""}

-----------------------------------------------------------------------------
(* The store *)

Null == "null"
Timestamp == "timestamp"

ActiveStatuses == {"booked", "checked_in"}

BookingIds == 1..Len(bookings)

(* faulty variant: the row is stored on room 1, whichever room was requested *)
NewBookingFirstRoom(value) ==
    [guest_id |-> value.guest_id, room_id |-> 1,
     check_in_date |-> value.check_in_date, check_out_date |-> value.check_out_date,
     total_amount |-> value.total_amount, status |-> "booked",
     actual_check_in |-> Null, actual_check_out |-> Null]

(* faulty variant: the row takes check_in_date for both dates *)
NewBookingOneNight(value) ==
    [guest_id |-> value.guest_id, room_id |-> value.room_id,
     check_in_date |-> value.check_in_date, check_out_date |-> value.check_in_date,
     total_amount |-> value.total_amount, status |-> "booked",
     actual_check_in |-> Null, actual_check_out |-> Null]

(* the row inserted by handleCreateBooking: the validated value and status booked *)
NewBooking(value) ==
    [guest_id |-> value.guest_id, room_id |-> value.room_id,
     check_in_date |-> value.check_in_date, check_out_date |-> value.check_out_date,
     total_amount |-> value.total_amount, status |-> "booked",
     actual_check_in |-> Null, actual_check_out |-> Null]

(* the filter of the conflict query: same room, active status, and the or() of
   the two date comparisons *)
ConflictFilter(b, value) ==
    /\ b.room_id = value.room_id
    /\ b.status \in ActiveStatuses
    /\ (b.check_in_date <= value.check_out_date \/ b.check_out_date >= value.check_in_date)

Conflicts(value) == { i \in BookingIds : ConflictFilter(bookings[i], value) }

(* faulty variant: only the release of a room is written *)
SetAvailableTrueOnly(rs, id, v) ==
    IF id \in DOMAIN rs /\ v THEN [rs EXCEPT ![id] = v] ELSE rs

(* faulty variant: the update matches no row *)
SetAvailableNoop(rs, id, v) == rs

(* faulty variant: the update writes false whatever the value *)
SetAvailableFalseOnly(rs, id, v) ==
    IF id \in DOMAIN rs THEN [rs EXCEPT ![id] = FALSE] ELSE rs

(* rooms.update({is_available: v}).eq('id', id): no row is touched when the
   room does not exist *)
SetAvailable(rs, id, v) ==
    IF id \in DOMAIN rs THEN [rs EXCEPT ![id] = v] ELSE rs

(* faulty variant: actual_check_out is not written *)
CheckOutUpdateNoTimestamp(b) == [b EXCEPT !.status = "checked_out"]

(* faulty variant: actual_check_in is not written *)
CheckInUpdateNoTimestamp(b) == [b EXCEPT !.status = "checked_in"]

(* the fields written by the three transitions *)
CheckInUpdate(b) == [b EXCEPT !.status = "checked_in", !.actual_check_in = Timestamp]

CheckOutUpdate(b) == [b EXCEPT !.status = "checked_out", !.actual_check_out = Timestamp]

CancelUpdate(b) == [b EXCEPT !.status = "cancelled"]

(* faulty variants of the guards: check-in refused only when already checked
   in; check-out allowed from booked; one message for cancelled and completed *)
CheckInAllowedUnlessCheckedIn(status) == status # "checked_in"

CheckOutAllowedActive(status) == status \in ActiveStatuses

CancelRefusalMerged(status) ==
    CASE status = "checked_in" -> MsgCancelCheckedIn
      [] status \in {"cancelled", "checked_out"} -> MsgCancelCancelled
      [] OTHER -> ""

(* bookings.update(value): the fields of the validated patch are written, the
   other columns keep their values *)
ApplyPatch(b, value) ==
    [f \in DOMAIN b |-> IF f \in PatchFields(value) THEN value[f] ELSE b[f]]

(* faulty variant: a booking that was checked out may be checked out again *)
CheckOutAllowedAfterCheckIn(status) == status \in {"checked_in", "checked_out"}

(* the status guards of the three transitions *)
CheckInAllowed(status) == status = "booked"

CheckOutAllowed(status) == status = "checked_in"

CancelRefusal(status) ==
    CASE status = "checked_in" -> MsgCancelCheckedIn
      [] status = "cancelled" -> MsgCancelCancelled
      [] status = "checked_out" -> MsgCancelCompleted
      [] OTHER -> ""

-----------------------------------------------------------------------------
(* Process state *)

(* Middleware state *)

(* a key of the limiter without a record *)
NoRecord == [consumedPoints |-> 0, expiresAt |-> 0]

(* sent: what the middleware did with the last request: by: the middleware;
   next: it called next(); code, retryAfter, data: the response it wrote
   itself; wrapped: res.json is the caching wrapper and the handler has not
   answered yet; at: the time of the request; evicted: the entry the wrapper
   deleted *)
NoSent == [by |-> "", ip |-> "", method |-> "", key |-> 0, at |-> 0, next |-> FALSE,
           code |-> 0, retryAfter |-> 0, data |-> <<>>, wrapped |-> FALSE,
           evicted |-> <<>>]

(* passes: a record of the run, kept beside the limiter: when the current
   minute of a key began, how many of its requests went to next() in it (all,
   GET, and POST/PUT/DELETE), and when its limit was exceeded *)
NoPasses == [since |-> -1, count |-> 0, reads |-> 0, writes |-> 0, exceededAt |-> -1]

(* loc: what the handler holds between its store calls (the booking it read,
   the id of the row it inserted, the details of a validation error), and
   records of its run: whether a store call failed, how the conflict check
   ended, and how the update of the room ended *)
NoLoc == [status |-> "", room_id |-> 0, newid |-> 0, failed |-> FALSE, conflict |-> "",
          flip |-> "", details |-> <<>>]

NoPre == [guests |-> {}, rooms |-> <<>>, bookings |-> <<>>, guestEmail |-> <<>>,
          roomNumber |-> <<>>, taken |-> FALSE]

Snapshot == [guests |-> guests, rooms |-> rooms, bookings |-> bookings,
             guestEmail |-> guestEmail, roomNumber |-> roomNumber, taken |-> TRUE]

(* creates that were accepted and have not inserted yet *)
PendingCreates == { q \in Procs : pc[q] \in {"c_guest", "c_room", "c_conflict", "c_insert"} }

Init ==
    /\ guests = {1}
    /\ rooms = [r \in {1, 2} |-> TRUE]
    /\ bookings = <<>>
    /\ guestEmail = [g \in {1} |-> "a"]
    /\ roomNumber = [r \in {1, 2} |-> IF r = 1 THEN "101" ELSE "102"]
    /\ pc = [p \in Procs |-> "idle"]
    /\ req = [p \in Procs |-> NoReq]
    /\ loc = [p \in Procs |-> NoLoc]
    /\ resp = [p \in Procs |-> NoResp]
    /\ pre = NoPre
    /\ now = 0
    /\ rateLimiter = [k \in Ips |-> NoRecord]
    /\ cache = <<>>
    /\ sent = NoSent
    /\ passes = [k \in Ips |-> NoPasses]

Reply(p, code, msg, id) ==
    /\ pc' = [pc EXCEPT ![p] = "done"]
    /\ resp' = [resp EXCEPT ![p] = Response(code, msg, id)]

Goto(p, label) ==
    /\ pc' = [pc EXCEPT ![p] = label]
    /\ UNCHANGED resp

Failed(p) == [loc EXCEPT ![p].failed = TRUE]

(* handler: a store call that throws is caught by the handler's catch *)
Thrown(p) ==
    /\ Reply(p, 500, MsgInternal, 0)
    /\ loc' = Failed(p)

-----------------------------------------------------------------------------
(* handler, OPTIONS: corsMiddleware is cors({...}) without preflightContinue,
   so for an OPTIONS request cors itself ends the response with its
   optionsSuccessStatus and does not call the callback it was given: the
   callback's res.status(200).end() and resolve() never run, and the
   invocation stays where it is *)
PreflightStatus == 204

(* handler: a request arrives, is routed, and the handler runs up to its
   first store call *)
Receive(p, r, snap) ==
    /\ pc[p] = "idle"
    /\ Route(r) = "create" => Len(bookings) + Cardinality(PendingCreates) < MaxBookings
    /\ req' = [req EXCEPT ![p] = r]
    /\ loc' = [loc EXCEPT ![p] =
                 [NoLoc EXCEPT !.details = IF Route(r) = "create"
                                             THEN ValidationDetails(BookingViolations(r))
                                             ELSE <<>>]]
    /\ pre' = IF snap THEN Snapshot ELSE NoPre
    /\ UNCHANGED <<store, middleware>>
    /\ LET h == Route(r) IN
       CASE h = "create" ->
              IF ValidBooking(r)
                THEN /\ pc' = [pc EXCEPT ![p] = "c_guest"]
                     /\ resp' = [resp EXCEPT ![p] = NoResp]
                ELSE Reply(p, 400, MsgValidation, 0)
         [] h \in {"checkin", "checkout", "cancel"} ->
              IF r.id = NoId
                THEN Reply(p, 400, MsgIdRequired, 0)
                ELSE /\ pc' = [pc EXCEPT ![p] = (CASE h = "checkin" -> "ci_read"
                                                   [] h = "checkout" -> "co_read"
                                                   [] OTHER -> "x_read")]
                     /\ resp' = [resp EXCEPT ![p] = NoResp]
         [] h = "update" ->
              IF r.id = NoId
                THEN Reply(p, 400, MsgIdRequired, 0)
                ELSE IF ValidPatch(r)
                       THEN /\ pc' = [pc EXCEPT ![p] = "u_read"]
                            /\ resp' = [resp EXCEPT ![p] = NoResp]
                       ELSE Reply(p, 400, MsgValidation, 0)
         [] h = "list" ->
              /\ pc' = [pc EXCEPT ![p] = "l_query"]
              /\ resp' = [resp EXCEPT ![p] = NoResp]
         [] h = "preflight" ->
              /\ pc' = [pc EXCEPT ![p] = "preflight"]
              /\ resp' = [resp EXCEPT ![p] = Response(PreflightStatus, "", 0)]
         [] OTHER -> Reply(p, 405, MsgMethodNotAllowed, 0)

-----------------------------------------------------------------------------
(* handleGetBookings *)

(* faulty variant: date_to is compared with check_in_date *)
ListFilterDateToOnCheckIn(b, q) ==
    /\ q.status # "" => b.status = q.status
    /\ q.guest_id # 0 => b.guest_id = q.guest_id
    /\ q.room_id # 0 => b.room_id = q.room_id
    /\ q.date_from # 0 => b.check_in_date >= q.date_from
    /\ q.date_to # 0 => b.check_in_date <= q.date_to

(* the eq, gte and lte filters the handler adds for the parameters the query
   gives *)
ListFilter(b, q) ==
    /\ q.status # "" => b.status = q.status
    /\ q.guest_id # 0 => b.guest_id = q.guest_id
    /\ q.room_id # 0 => b.room_id = q.room_id
    /\ q.date_from # 0 => b.check_in_date >= q.date_from
    /\ q.date_to # 0 => b.check_out_date <= q.date_to

(* order('created_at', {ascending: false}): created_at is not written by any
   handler, the store sets it when the row is inserted, so the rows come
   latest insert first *)
Descending(ids) ==
    [k \in 1..Cardinality(ids) |->
        CHOOSE i \in ids : Cardinality({ j \in ids : j > i }) = k - 1]

(* range(skip, skip + limit - 1) with the defaults of the destructuring *)
ListRange(rows, q) ==
    LET skip == IF q.skip = NoParam THEN 0 ELSE q.skip
        limit == IF q.limit = NoParam THEN DefaultLimit ELSE q.limit
        to == IF skip + limit < Len(rows) THEN skip + limit ELSE Len(rows)
    IN  SubSeq(rows, skip + 1, to)

ListResult(q) ==
    ListRange(Descending({ i \in BookingIds : ListFilter(bookings[i], q) }), q)

ListQuery(p, outs) ==
    /\ pc[p] = "l_query"
    /\ \E o \in outs :
         IF o = "throw" THEN Thrown(p) ELSE
         IF o = "ok"
           THEN /\ pc' = [pc EXCEPT ![p] = "done"]
                /\ resp' = [resp EXCEPT ![p] =
                               [Response(200, "", 0) EXCEPT !.data = ListResult(req[p])]]
                /\ UNCHANGED loc
           ELSE /\ Reply(p, 500, MsgListFailed, 0)
                /\ loc' = Failed(p)
    /\ UNCHANGED <<store, req, pre, middleware>>

-----------------------------------------------------------------------------
(* handleCreateBooking *)

(* faulty variant: the guest is not verified *)
CreateGuestReadSkipped(p, outs) ==
    /\ pc[p] = "c_guest"
    /\ \E o \in outs : Goto(p, "c_room") /\ UNCHANGED loc
    /\ UNCHANGED <<store, req, pre, middleware>>

CreateGuestRead(p, outs) ==
    /\ pc[p] = "c_guest"
    /\ \E o \in outs :
         IF o = "throw" THEN Thrown(p) ELSE
         IF o = "ok" /\ req[p].guest_id \in guests
           THEN Goto(p, "c_room") /\ UNCHANGED loc
           ELSE /\ Reply(p, 400, MsgGuestNotFound, 0)
                /\ loc' = IF o = "ok" THEN loc ELSE Failed(p)
    /\ UNCHANGED <<store, req, pre, middleware>>

CreateRoomRead(p, outs) ==
    /\ pc[p] = "c_room"
    /\ \E o \in outs :
         IF o = "throw" THEN Thrown(p) ELSE
         IF o = "ok" /\ req[p].room_id \in DOMAIN rooms
           THEN /\ IF rooms[req[p].room_id]
                     THEN Goto(p, "c_conflict")
                     ELSE Reply(p, 400, MsgRoomUnavailable, 0)
                /\ UNCHANGED loc
           ELSE /\ Reply(p, 400, MsgRoomNotFound, 0)
                /\ loc' = IF o = "ok" THEN loc ELSE Failed(p)
    /\ UNCHANGED <<store, req, pre, middleware>>

(* faulty variant: a failed conflict query refuses the creation *)
CreateConflictQueryClosed(p, outs) ==
    /\ pc[p] = "c_conflict"
    /\ \E o \in outs :
         IF o = "ok"
           THEN /\ IF Conflicts(req[p]) # {}
                     THEN /\ Reply(p, 400, MsgConflict, 0)
                          /\ loc' = [loc EXCEPT ![p].conflict = "found"]
                     ELSE /\ Goto(p, "c_insert")
                          /\ loc' = [loc EXCEPT ![p].conflict = "passed"]
           ELSE /\ Reply(p, 400, MsgConflict, 0)
                /\ loc' = [loc EXCEPT ![p].failed = TRUE, ![p].conflict = "skipped"]
    /\ UNCHANGED <<store, req, pre, middleware>>

CreateConflictQuery(p, outs) ==
    /\ pc[p] = "c_conflict"
    /\ \E o \in outs :
         IF o = "ok"
           THEN /\ IF Conflicts(req[p]) # {}
                     THEN /\ Reply(p, 400, MsgConflict, 0)
                          /\ loc' = [loc EXCEPT ![p].conflict = "found"]
                     ELSE /\ Goto(p, "c_insert")
                          /\ loc' = [loc EXCEPT ![p].conflict = "passed"]
           ELSE (* an error is logged, a throw is caught: the handler goes on *)
                /\ Goto(p, "c_insert")
                /\ loc' = [loc EXCEPT ![p].failed = TRUE, ![p].conflict = "skipped"]
    /\ UNCHANGED <<store, req, pre, middleware>>

(* variant with an exclusion constraint in the store: the insert fails when an
   active booking of the room matches the conflict filter *)
CreateInsertExclusive(p, outs) ==
    /\ pc[p] = "c_insert"
    /\ \E o \in outs :
         IF o = "throw" THEN Thrown(p) /\ UNCHANGED bookings ELSE
         IF o = "ok" /\ Conflicts(req[p]) = {}
           THEN /\ bookings' = Append(bookings, NewBooking(req[p]))
                /\ Goto(p, "c_roomupd")
                /\ loc' = [loc EXCEPT ![p].newid = Len(bookings) + 1]
           ELSE /\ Reply(p, 500, MsgCreateFailed, 0)
                /\ loc' = Failed(p)
                /\ UNCHANGED bookings
    /\ UNCHANGED <<guests, rooms, keys, req, pre, middleware>>

CreateInsert(p, outs) ==
    /\ pc[p] = "c_insert"
    /\ \E o \in outs :
         IF o = "throw" THEN Thrown(p) /\ UNCHANGED bookings ELSE
         IF o = "ok"
           THEN /\ bookings' = Append(bookings, NewBooking(req[p]))
                /\ Goto(p, "c_roomupd")
                /\ loc' = [loc EXCEPT ![p].newid = Len(bookings) + 1]
           ELSE /\ Reply(p, 500, MsgCreateFailed, 0)
                /\ loc' = Failed(p)
                /\ UNCHANGED bookings
    /\ UNCHANGED <<guests, rooms, keys, req, pre, middleware>>

(* faulty variant: a failed room update fails the creation *)
CreateRoomUpdateStrict(p, outs) ==
    /\ pc[p] = "c_roomupd"
    /\ \E o \in outs :
         IF o = "ok"
           THEN /\ rooms' = SetAvailable(rooms, req[p].room_id, FALSE)
                /\ loc' = [loc EXCEPT ![p].flip = o]
                /\ Reply(p, 201, MsgCreated, loc[p].newid)
           ELSE /\ UNCHANGED rooms
                /\ loc' = [loc EXCEPT ![p].failed = TRUE, ![p].flip = o]
                /\ Reply(p, 500, MsgInternal, 0)
    /\ UNCHANGED <<guests, bookings, keys, req, pre, middleware>>

CreateRoomUpdate(p, outs) ==
    /\ pc[p] = "c_roomupd"
    /\ \E o \in outs :
         IF o = "throw"
           THEN /\ Reply(p, 500, MsgInternal, 0)
                /\ loc' = [loc EXCEPT ![p].failed = TRUE, ![p].flip = o]
                /\ UNCHANGED rooms
           ELSE /\ rooms' = IF o = "ok" THEN SetAvailable(rooms, req[p].room_id, FALSE) ELSE rooms
                /\ loc' = [loc EXCEPT ![p].failed = (@ \/ o # "ok"), ![p].flip = o]
                /\ Reply(p, 201, MsgCreated, loc[p].newid)
    /\ UNCHANGED <<guests, bookings, keys, req, pre, middleware>>

-----------------------------------------------------------------------------
(* The read of the booking that starts handleCheckIn, handleCheckOut and
   handleCancelBooking: .select('*').eq('id', bookingId).single() *)

Found(p, o) == o = "ok" /\ req[p].id \in BookingIds

Remember(p) ==
    [loc EXCEPT ![p].status = bookings[req[p].id].status,
                ![p].room_id = bookings[req[p].id].room_id]

(* handleCheckIn *)

CheckInRead(p, outs) ==
    /\ pc[p] = "ci_read"
    /\ \E o \in outs :
         IF o = "throw" THEN Thrown(p) ELSE
         IF Found(p, o)
           THEN IF CheckInAllowed(bookings[req[p].id].status)
                  THEN Goto(p, "ci_write") /\ loc' = Remember(p)
                  ELSE Reply(p, 400, MsgOnlyBooked, 0) /\ UNCHANGED loc
           ELSE /\ Reply(p, 404, MsgBookingNotFound, 0)
                /\ loc' = IF o = "ok" THEN loc ELSE Failed(p)
    /\ UNCHANGED <<store, req, pre, middleware>>

CheckInWrite(p, outs) ==
    /\ pc[p] = "ci_write"
    /\ \E o \in outs :
         IF o = "throw" THEN Thrown(p) /\ UNCHANGED bookings ELSE
         IF o = "ok"
           THEN /\ bookings' = [bookings EXCEPT ![req[p].id] = CheckInUpdate(@)]
                /\ Reply(p, 200, MsgCheckedIn, req[p].id)
                /\ UNCHANGED loc
           ELSE /\ Reply(p, 500, MsgCheckInFailed, 0)
                /\ loc' = Failed(p)
                /\ UNCHANGED bookings
    /\ UNCHANGED <<guests, rooms, keys, req, pre, middleware>>

(* handleCheckOut *)

CheckOutRead(p, outs) ==
    /\ pc[p] = "co_read"
    /\ \E o \in outs :
         IF o = "throw" THEN Thrown(p) ELSE
         IF Found(p, o)
           THEN IF CheckOutAllowed(bookings[req[p].id].status)
                  THEN Goto(p, "co_write") /\ loc' = Remember(p)
                  ELSE Reply(p, 400, MsgOnlyCheckedIn, 0) /\ UNCHANGED loc
           ELSE /\ Reply(p, 404, MsgBookingNotFound, 0)
                /\ loc' = IF o = "ok" THEN loc ELSE Failed(p)
    /\ UNCHANGED <<store, req, pre, middleware>>

CheckOutWrite(p, outs) ==
    /\ pc[p] = "co_write"
    /\ \E o \in outs :
         IF o = "throw" THEN Thrown(p) /\ UNCHANGED bookings ELSE
         IF o = "ok"
           THEN /\ bookings' = [bookings EXCEPT ![req[p].id] = CheckOutUpdate(@)]
                /\ Goto(p, "co_room")
                /\ UNCHANGED loc
           ELSE /\ Reply(p, 500, MsgCheckOutFailed, 0)
                /\ loc' = Failed(p)
                /\ UNCHANGED bookings
    /\ UNCHANGED <<guests, rooms, keys, req, pre, middleware>>

(* faulty variant: the room is released only when no other booking of the
   room is booked or checked_in *)
CheckOutRoomUpdateGuarded(p, outs) ==
    /\ pc[p] = "co_room"
    /\ \E o \in outs :
         IF o = "throw"
           THEN /\ Reply(p, 500, MsgInternal, 0)
                /\ loc' = [loc EXCEPT ![p].failed = TRUE, ![p].flip = o]
                /\ UNCHANGED rooms
           ELSE /\ rooms' = IF o = "ok" /\ (\A i \in BookingIds :
                                               bookings[i].room_id = loc[p].room_id
                                                  => bookings[i].status \notin ActiveStatuses)
                              THEN SetAvailable(rooms, loc[p].room_id, TRUE) ELSE rooms
                /\ loc' = [loc EXCEPT ![p].failed = (@ \/ o # "ok"), ![p].flip = o]
                /\ Reply(p, 200, MsgCheckedOut, req[p].id)
    /\ UNCHANGED <<guests, bookings, keys, req, pre, middleware>>

CheckOutRoomUpdate(p, outs) ==
    /\ pc[p] = "co_room"
    /\ \E o \in outs :
         IF o = "throw"
           THEN /\ Reply(p, 500, MsgInternal, 0)
                /\ loc' = [loc EXCEPT ![p].failed = TRUE, ![p].flip = o]
                /\ UNCHANGED rooms
           ELSE /\ rooms' = IF o = "ok" THEN SetAvailable(rooms, loc[p].room_id, TRUE) ELSE rooms
                /\ loc' = [loc EXCEPT ![p].failed = (@ \/ o # "ok"), ![p].flip = o]
                /\ Reply(p, 200, MsgCheckedOut, req[p].id)
    /\ UNCHANGED <<guests, bookings, keys, req, pre, middleware>>

(* handleCancelBooking *)

CancelRead(p, outs) ==
    /\ pc[p] = "x_read"
    /\ \E o \in outs :
         IF o = "throw" THEN Thrown(p) ELSE
         IF Found(p, o)
           THEN IF CancelRefusal(bookings[req[p].id].status) = ""
                  THEN Goto(p, "x_write") /\ loc' = Remember(p)
                  ELSE /\ Reply(p, 400, CancelRefusal(bookings[req[p].id].status), 0)
                       /\ UNCHANGED loc
           ELSE /\ Reply(p, 404, MsgBookingNotFound, 0)
                /\ loc' = IF o = "ok" THEN loc ELSE Failed(p)
    /\ UNCHANGED <<store, req, pre, middleware>>

(* faulty variant: the cancellation deletes the row *)
CancelWriteDeleting(p, outs) ==
    /\ pc[p] = "x_write"
    /\ \E o \in outs :
         IF o = "ok"
           THEN /\ bookings' = [i \in 1..(Len(bookings) - 1) |->
                                   IF i < req[p].id THEN bookings[i] ELSE bookings[i + 1]]
                /\ Goto(p, "x_room")
                /\ UNCHANGED loc
           ELSE /\ Reply(p, 500, MsgCancelFailed, 0)
                /\ loc' = Failed(p)
                /\ UNCHANGED bookings
    /\ UNCHANGED <<guests, rooms, keys, req, pre, middleware>>

CancelWrite(p, outs) ==
    /\ pc[p] = "x_write"
    /\ \E o \in outs :
         IF o = "throw" THEN Thrown(p) /\ UNCHANGED bookings ELSE
         IF o = "ok"
           THEN /\ bookings' = [bookings EXCEPT ![req[p].id] = CancelUpdate(@)]
                /\ Goto(p, "x_room")
                /\ UNCHANGED loc
           ELSE /\ Reply(p, 500, MsgCancelFailed, 0)
                /\ loc' = Failed(p)
                /\ UNCHANGED bookings
    /\ UNCHANGED <<guests, rooms, keys, req, pre, middleware>>

(* faulty variant: a failed room update fails the cancellation *)
CancelRoomUpdateStrict(p, outs) ==
    /\ pc[p] = "x_room"
    /\ \E o \in outs :
         IF o = "ok"
           THEN /\ rooms' = SetAvailable(rooms, loc[p].room_id, TRUE)
                /\ loc' = [loc EXCEPT ![p].flip = o]
                /\ Reply(p, 200, MsgCancelled, req[p].id)
           ELSE /\ UNCHANGED rooms
                /\ loc' = [loc EXCEPT ![p].failed = TRUE, ![p].flip = o]
                /\ Reply(p, 500, MsgInternal, 0)
    /\ UNCHANGED <<guests, bookings, keys, req, pre, middleware>>

CancelRoomUpdate(p, outs) ==
    /\ pc[p] = "x_room"
    /\ \E o \in outs :
         IF o = "throw"
           THEN /\ Reply(p, 500, MsgInternal, 0)
                /\ loc' = [loc EXCEPT ![p].failed = TRUE, ![p].flip = o]
                /\ UNCHANGED rooms
           ELSE /\ rooms' = IF o = "ok" THEN SetAvailable(rooms, loc[p].room_id, TRUE) ELSE rooms
                /\ loc' = [loc EXCEPT ![p].failed = (@ \/ o # "ok"), ![p].flip = o]
                /\ Reply(p, 200, MsgCancelled, req[p].id)
    /\ UNCHANGED <<guests, bookings, keys, req, pre, middleware>>

-----------------------------------------------------------------------------
(* handleUpdateBooking *)

(* .select('id').eq('id', bookingId).single(): fetchError is not looked at,
   a failed read leaves existingBooking null *)
UpdateRead(p, outs) ==
    /\ pc[p] = "u_read"
    /\ \E o \in outs :
         IF o = "throw" THEN Thrown(p) ELSE
         IF Found(p, o)
           THEN Goto(p, "u_write") /\ UNCHANGED loc
           ELSE /\ Reply(p, 404, MsgBookingNotFound, 0)
                /\ loc' = IF o = "ok" THEN loc ELSE Failed(p)
    /\ UNCHANGED <<store, req, pre, middleware>>

(* faulty variant: the update releases the room when it ends the booking *)
UpdateWriteReleasing(p, outs) ==
    /\ pc[p] = "u_write"
    /\ \E o \in outs :
         /\ o = "ok"
         /\ bookings' = [bookings EXCEPT ![req[p].id] = ApplyPatch(@, req[p])]
         /\ rooms' = IF req[p].status \in {"checked_out", "cancelled"}
                        THEN SetAvailable(rooms, bookings[req[p].id].room_id, TRUE)
                        ELSE rooms
         /\ Reply(p, 200, MsgUpdated, req[p].id)
         /\ UNCHANGED loc
    /\ UNCHANGED <<guests, keys, req, pre, middleware>>

UpdateWrite(p, outs) ==
    /\ pc[p] = "u_write"
    /\ \E o \in outs :
         IF o = "throw" THEN Thrown(p) /\ UNCHANGED bookings ELSE
         IF o = "ok"
           THEN /\ bookings' = [bookings EXCEPT ![req[p].id] = ApplyPatch(@, req[p])]
                /\ Reply(p, 200, MsgUpdated, req[p].id)
                /\ UNCHANGED loc
           ELSE /\ Reply(p, 500, MsgUpdateFailed, 0)
                /\ loc' = Failed(p)
                /\ UNCHANGED bookings
    /\ UNCHANGED <<guests, rooms, keys, req, pre, middleware>>

-----------------------------------------------------------------------------

(* The guests API and the rooms API *)

(* the id the store gives to an inserted row *)
NewRowId(ids) == IF ids = {} THEN 1 ELSE (CHOOSE m \in ids : \A i \in ids : i <= m) + 1

(* .single(): data only when exactly one row matches *)
Single(matches) == Cardinality(matches) = 1

GuestsWithEmail(e) == { g \in guests : guestEmail[g] = e }

RoomsWithNumber(n) == { r \in DOMAIN rooms : roomNumber[r] = n }

(* faulty variant of the guest guard: bookings of every status count *)
BookingsOfGuest(g) == { i \in BookingIds : bookings[i].guest_id = g }

(* the delete guards: .eq('guest_id', id) resp. .eq('room_id', id), and
   .in('status', ['booked', 'checked_in']) *)
ActiveBookingsOfGuest(g) ==
    { i \in BookingIds : bookings[i].guest_id = g /\ bookings[i].status \in ActiveStatuses }

ActiveBookingsOfRoom(r) ==
    { i \in BookingIds : bookings[i].room_id = r /\ bookings[i].status \in ActiveStatuses }

PendingRowCreates ==
    { q \in Procs : pc[q] \in {"cg_dup", "cg_insert", "cr_dup", "cr_insert"} }

(* handler of the guests API: a request arrives and the handler runs up to
   its first store call *)
ReceiveGuests(p, r, snap) ==
    /\ pc[p] = "idle"
    /\ r.api = "guests"
    /\ RowRoute(r) = "create" => Cardinality(guests) + Cardinality(PendingRowCreates) < MaxRows
    /\ req' = [req EXCEPT ![p] = r]
    /\ loc' = [loc EXCEPT ![p] = NoLoc]
    /\ pre' = IF snap THEN Snapshot ELSE NoPre
    /\ UNCHANGED <<store, middleware>>
    /\ LET h == RowRoute(r) IN
       CASE h = "create" ->
              IF ValidGuest(r)
                THEN /\ pc' = [pc EXCEPT ![p] = "cg_dup"]
                     /\ resp' = [resp EXCEPT ![p] = NoResp]
                ELSE Reply(p, 400, MsgValidation, 0)
         [] h = "update" ->
              IF r.id = NoId
                THEN Reply(p, 400, MsgGuestIdRequired, 0)
                ELSE IF ValidGuestPatch(r)
                       THEN /\ pc' = [pc EXCEPT ![p] = "ug_read"]
                            /\ resp' = [resp EXCEPT ![p] = NoResp]
                       ELSE Reply(p, 400, MsgValidation, 0)
         [] h = "delete" ->
              IF r.id = NoId
                THEN Reply(p, 400, MsgGuestIdRequired, 0)
                ELSE /\ pc' = [pc EXCEPT ![p] = "dg_query"]
                     /\ resp' = [resp EXCEPT ![p] = NoResp]
         [] OTHER -> Reply(p, 405, MsgMethodNotAllowed, 0)

(* handleCreateGuest *)

(* the duplicate check: duplicateError is not looked at, a failed read
   leaves existingGuest null *)
CreateGuestDuplicateRead(p, outs) ==
    /\ pc[p] = "cg_dup"
    /\ \E o \in outs :
         IF o = "throw" THEN Thrown(p) ELSE
         IF o = "ok" /\ Single(GuestsWithEmail(req[p].email))
           THEN Reply(p, 400, MsgEmailRegistered, 0) /\ UNCHANGED loc
           ELSE /\ Goto(p, "cg_insert")
                /\ loc' = IF o = "ok" THEN loc ELSE Failed(p)
    /\ UNCHANGED <<store, req, pre, middleware>>

CreateGuestInsert(p, outs) ==
    /\ pc[p] = "cg_insert"
    /\ \E o \in outs :
         IF o = "throw" THEN Thrown(p) /\ UNCHANGED <<guests, guestEmail>> ELSE
         IF o = "ok"
           THEN LET id == NewRowId(guests) IN
                /\ guests' = guests \cup {id}
                /\ guestEmail' = [g \in guests \cup {id} |->
                                     IF g = id THEN req[p].email ELSE guestEmail[g]]
                /\ Reply(p, 201, MsgCreated, id)
                /\ loc' = [loc EXCEPT ![p].newid = id]
           ELSE /\ Reply(p, 500, MsgGuestCreateFailed, 0)
                /\ loc' = Failed(p)
                /\ UNCHANGED <<guests, guestEmail>>
    /\ UNCHANGED <<rooms, bookings, roomNumber, req, pre, middleware>>

(* handleUpdateGuest *)

(* the existence check, and the branch on value.email that follows it *)
UpdateGuestRead(p, outs) ==
    /\ pc[p] = "ug_read"
    /\ \E o \in outs :
         IF o = "throw" THEN Thrown(p) ELSE
         IF o = "ok" /\ req[p].id \in guests
           THEN /\ Goto(p, IF req[p].email # "" THEN "ug_dup" ELSE "ug_write")
                /\ UNCHANGED loc
           ELSE /\ Reply(p, 404, MsgGuestNotFound, 0)
                /\ loc' = IF o = "ok" THEN loc ELSE Failed(p)
    /\ UNCHANGED <<store, req, pre, middleware>>

(* faulty variant: the duplicate check does not leave out the guest itself *)
UpdateGuestDuplicateReadAll(p, outs) ==
    /\ pc[p] = "ug_dup"
    /\ \E o \in outs :
         IF o = "ok" /\ Single(GuestsWithEmail(req[p].email))
           THEN Reply(p, 400, MsgEmailRegistered, 0) /\ UNCHANGED loc
           ELSE /\ Goto(p, "ug_write")
                /\ loc' = IF o = "ok" THEN loc ELSE Failed(p)
    /\ UNCHANGED <<store, req, pre, middleware>>

(* the duplicate check: .eq('email', value.email).neq('id', guestId) *)
UpdateGuestDuplicateRead(p, outs) ==
    /\ pc[p] = "ug_dup"
    /\ \E o \in outs :
         IF o = "throw" THEN Thrown(p) ELSE
         IF o = "ok" /\ Single(GuestsWithEmail(req[p].email) \ {req[p].id})
           THEN Reply(p, 400, MsgEmailRegistered, 0) /\ UNCHANGED loc
           ELSE /\ Goto(p, "ug_write")
                /\ loc' = IF o = "ok" THEN loc ELSE Failed(p)
    /\ UNCHANGED <<store, req, pre, middleware>>

(* guests.update(value).eq('id', guestId): no row is touched when the guest
   is gone *)
UpdateGuestWrite(p, outs) ==
    /\ pc[p] = "ug_write"
    /\ \E o \in outs :
         IF o = "throw" THEN Thrown(p) /\ UNCHANGED guestEmail ELSE
         IF o = "ok" /\ req[p].id \in guests
           THEN /\ guestEmail' = IF req[p].email # ""
                                   THEN [guestEmail EXCEPT ![req[p].id] = req[p].email]
                                   ELSE guestEmail
                /\ Reply(p, 200, MsgUpdated, req[p].id)
                /\ UNCHANGED loc
           ELSE /\ Reply(p, 500, MsgGuestUpdateFailed, 0)
                /\ loc' = Failed(p)
                /\ UNCHANGED guestEmail
    /\ UNCHANGED <<guests, rooms, bookings, roomNumber, req, pre, middleware>>

(* handleDeleteGuest *)

(* faulty variant: a failed query refuses the deletion *)
DeleteGuestQueryRefusing(p, outs) ==
    /\ pc[p] = "dg_query"
    /\ \E o \in outs :
         IF o = "throw" THEN Thrown(p) ELSE
         IF o # "ok" \/ ActiveBookingsOfGuest(req[p].id) # {}
           THEN /\ Reply(p, 400, MsgGuestHasActive, 0)
                /\ loc' = IF o = "ok" THEN loc ELSE Failed(p)
           ELSE Goto(p, "dg_delete") /\ UNCHANGED loc
    /\ UNCHANGED <<store, req, pre, middleware>>

(* the guard: bookingError is not looked at, a failed query leaves
   activeBookings null and the handler goes on *)
DeleteGuestQuery(p, outs) ==
    /\ pc[p] = "dg_query"
    /\ \E o \in outs :
         IF o = "throw" THEN Thrown(p) ELSE
         IF o = "ok" /\ ActiveBookingsOfGuest(req[p].id) # {}
           THEN Reply(p, 400, MsgGuestHasActive, 0) /\ UNCHANGED loc
           ELSE /\ Goto(p, "dg_delete")
                /\ loc' = IF o = "ok" THEN loc ELSE Failed(p)
    /\ UNCHANGED <<store, req, pre, middleware>>

(* guests.delete().eq('id', guestId) *)
DeleteGuestDelete(p, outs) ==
    /\ pc[p] = "dg_delete"
    /\ \E o \in outs :
         IF o = "throw" THEN Thrown(p) /\ UNCHANGED <<guests, guestEmail>> ELSE
         IF o = "ok"
           THEN /\ guests' = guests \ {req[p].id}
                /\ guestEmail' = [g \in guests \ {req[p].id} |-> guestEmail[g]]
                /\ Reply(p, 200, MsgGuestDeleted, req[p].id)
                /\ UNCHANGED loc
           ELSE /\ Reply(p, 500, MsgGuestDeleteFailed, 0)
                /\ loc' = Failed(p)
                /\ UNCHANGED <<guests, guestEmail>>
    /\ UNCHANGED <<rooms, bookings, roomNumber, req, pre, middleware>>

(* handler of the rooms API: a request arrives and the handler runs up to
   its first store call *)
ReceiveRooms(p, r, snap) ==
    /\ pc[p] = "idle"
    /\ r.api = "rooms"
    /\ RowRoute(r) = "create" =>
          Cardinality(DOMAIN rooms) + Cardinality(PendingRowCreates) < MaxRows
    /\ req' = [req EXCEPT ![p] = r]
    /\ loc' = [loc EXCEPT ![p] = NoLoc]
    /\ pre' = IF snap THEN Snapshot ELSE NoPre
    /\ UNCHANGED <<store, middleware>>
    /\ LET h == RowRoute(r) IN
       CASE h = "create" ->
              IF ValidRoom(r)
                THEN /\ pc' = [pc EXCEPT ![p] = "cr_dup"]
                     /\ resp' = [resp EXCEPT ![p] = NoResp]
                ELSE Reply(p, 400, MsgValidation, 0)
         [] h = "update" ->
              IF r.id = NoId
                THEN Reply(p, 400, MsgRoomIdRequired, 0)
                ELSE IF ValidRoomPatch(r)
                       THEN /\ pc' = [pc EXCEPT ![p] = "ur_read"]
                            /\ resp' = [resp EXCEPT ![p] = NoResp]
                       ELSE Reply(p, 400, MsgValidation, 0)
         [] h = "delete" ->
              IF r.id = NoId
                THEN Reply(p, 400, MsgRoomIdRequired, 0)
                ELSE /\ pc' = [pc EXCEPT ![p] = "dr_query"]
                     /\ resp' = [resp EXCEPT ![p] = NoResp]
         [] OTHER -> Reply(p, 405, MsgMethodNotAllowed, 0)

(* handleCreateRoom *)

CreateRoomDuplicateRead(p, outs) ==
    /\ pc[p] = "cr_dup"
    /\ \E o \in outs :
         IF o = "throw" THEN Thrown(p) ELSE
         IF o = "ok" /\ Single(RoomsWithNumber(req[p].room_number))
           THEN Reply(p, 400, MsgRoomNumberExists, 0) /\ UNCHANGED loc
           ELSE /\ Goto(p, "cr_insert")
                /\ loc' = IF o = "ok" THEN loc ELSE Failed(p)
    /\ UNCHANGED <<store, req, pre, middleware>>

(* the row is inserted with is_available: true *)
CreateRoomInsert(p, outs) ==
    /\ pc[p] = "cr_insert"
    /\ \E o \in outs :
         IF o = "throw" THEN Thrown(p) /\ UNCHANGED <<rooms, roomNumber>> ELSE
         IF o = "ok"
           THEN LET id == NewRowId(DOMAIN rooms) IN
                /\ rooms' = [r \in DOMAIN rooms \cup {id} |->
                                IF r = id THEN TRUE ELSE rooms[r]]
                /\ roomNumber' = [r \in DOMAIN rooms \cup {id} |->
                                     IF r = id THEN req[p].room_number ELSE roomNumber[r]]
                /\ Reply(p, 201, MsgCreated, id)
                /\ loc' = [loc EXCEPT ![p].newid = id]
           ELSE /\ Reply(p, 500, MsgRoomCreateFailed, 0)
                /\ loc' = Failed(p)
                /\ UNCHANGED <<rooms, roomNumber>>
    /\ UNCHANGED <<guests, bookings, guestEmail, req, pre, middleware>>

(* handleUpdateRoom *)

UpdateRoomRead(p, outs) ==
    /\ pc[p] = "ur_read"
    /\ \E o \in outs :
         IF o = "throw" THEN Thrown(p) ELSE
         IF o = "ok" /\ req[p].id \in DOMAIN rooms
           THEN /\ Goto(p, IF req[p].room_number # "" THEN "ur_dup" ELSE "ur_write")
                /\ UNCHANGED loc
           ELSE /\ Reply(p, 404, MsgRoomNotFound, 0)
                /\ loc' = IF o = "ok" THEN loc ELSE Failed(p)
    /\ UNCHANGED <<store, req, pre, middleware>>

UpdateRoomDuplicateRead(p, outs) ==
    /\ pc[p] = "ur_dup"
    /\ \E o \in outs :
         IF o = "throw" THEN Thrown(p) ELSE
         IF o = "ok" /\ Single(RoomsWithNumber(req[p].room_number) \ {req[p].id})
           THEN Reply(p, 400, MsgRoomNumberExists, 0) /\ UNCHANGED loc
           ELSE /\ Goto(p, "ur_write")
                /\ loc' = IF o = "ok" THEN loc ELSE Failed(p)
    /\ UNCHANGED <<store, req, pre, middleware>>

(* rooms.update(value).eq('id', roomId): room_number and is_available are
   written when the patch has them *)
UpdateRoomWrite(p, outs) ==
    /\ pc[p] = "ur_write"
    /\ \E o \in outs :
         IF o = "throw" THEN Thrown(p) /\ UNCHANGED <<rooms, roomNumber>> ELSE
         IF o = "ok" /\ req[p].id \in DOMAIN rooms
           THEN /\ roomNumber' = IF req[p].room_number # ""
                                   THEN [roomNumber EXCEPT ![req[p].id] = req[p].room_number]
                                   ELSE roomNumber
                /\ rooms' = IF req[p].is_available # ""
                              THEN [rooms EXCEPT ![req[p].id] = (req[p].is_available = "true")]
                              ELSE rooms
                /\ Reply(p, 200, MsgUpdated, req[p].id)
                /\ UNCHANGED loc
           ELSE /\ Reply(p, 500, MsgRoomUpdateFailed, 0)
                /\ loc' = Failed(p)
                /\ UNCHANGED <<rooms, roomNumber>>
    /\ UNCHANGED <<guests, bookings, guestEmail, req, pre, middleware>>

(* handleDeleteRoom *)

DeleteRoomQuery(p, outs) ==
    /\ pc[p] = "dr_query"
    /\ \E o \in outs :
         IF o = "throw" THEN Thrown(p) ELSE
         IF o = "ok" /\ ActiveBookingsOfRoom(req[p].id) # {}
           THEN Reply(p, 400, MsgRoomHasActive, 0) /\ UNCHANGED loc
           ELSE /\ Goto(p, "dr_delete")
                /\ loc' = IF o = "ok" THEN loc ELSE Failed(p)
    /\ UNCHANGED <<store, req, pre, middleware>>

DeleteRoomDelete(p, outs) ==
    /\ pc[p] = "dr_delete"
    /\ \E o \in outs :
         IF o = "throw" THEN Thrown(p) /\ UNCHANGED <<rooms, roomNumber>> ELSE
         IF o = "ok"
           THEN /\ rooms' = [r \in DOMAIN rooms \ {req[p].id} |-> rooms[r]]
                /\ roomNumber' = [r \in DOMAIN rooms \ {req[p].id} |-> roomNumber[r]]
                /\ Reply(p, 200, MsgRoomDeleted, req[p].id)
                /\ UNCHANGED loc
           ELSE /\ Reply(p, 500, MsgRoomDeleteFailed, 0)
                /\ loc' = Failed(p)
                /\ UNCHANGED <<rooms, roomNumber>>
    /\ UNCHANGED <<guests, bookings, guestEmail, req, pre, middleware>>

-----------------------------------------------------------------------------

(* handler: resolve() after the response was sent; the invocation ends *)
Resolve(p) ==
    /\ pc[p] = "done"
    /\ pc' = [pc EXCEPT ![p] = "idle"]
    /\ req' = [req EXCEPT ![p] = NoReq]
    /\ loc' = [loc EXCEPT ![p] = NoLoc]
    /\ resp' = [resp EXCEPT ![p] = NoResp]
    /\ pre' = NoPre
    /\ UNCHANGED <<store, middleware>>

-----------------------------------------------------------------------------
(* Specifications *)

(* Middleware: the rate limiters *)

(* new RateLimiterMemory({points: 100, duration: 60, blockDuration: 60}) *)
Points == 100
Duration == 60
BlockDuration == 60

(* enhancedRateLimit: maxRequests = isWriteOperation ? 10 : 30 *)
WriteMax == 10
ReadMax == 30

WriteMethods == {"POST", "PUT", "DELETE"}

(* the record of a key is in force until it expires *)
Live(rec) == rec.expiresAt > now

(* the limiter's storage adds the points to a record in force, and starts a
   record that lasts duration seconds otherwise *)
Incrby(rec, points) ==
    IF Live(rec)
      THEN [rec EXCEPT !.consumedPoints = @ + points]
      ELSE [consumedPoints |-> points, expiresAt |-> now + Duration * 1000]

(* faulty variant: the limit is one point lower *)
ConsumeStrict(rec, points) ==
    LET res == Incrby(rec, points) IN
    IF res.consumedPoints >= Points
      THEN LET blocked == [res EXCEPT !.expiresAt = now + BlockDuration * 1000]
           IN  [record |-> blocked, resolved |-> FALSE, msBeforeNext |-> blocked.expiresAt - now]
      ELSE [record |-> res, resolved |-> TRUE, msBeforeNext |-> res.expiresAt - now]

(* rateLimiter.consume(key, points): resolves while the consumed points do not
   exceed the limit; the consume that first exceeds it blocks the key for
   blockDuration seconds; a rejection carries the time to the end of the
   record *)
Consume(rec, points) ==
    LET res == Incrby(rec, points) IN
    IF res.consumedPoints > Points
      THEN LET blocked == IF BlockDuration > 0 /\ res.consumedPoints <= Points + points
                            THEN [res EXCEPT !.expiresAt = now + BlockDuration * 1000]
                            ELSE res
           IN  [record |-> blocked, resolved |-> FALSE, msBeforeNext |-> blocked.expiresAt - now]
      ELSE [record |-> res, resolved |-> TRUE, msBeforeNext |-> res.expiresAt - now]

(* Math.round(msBeforeNext / 1000) || 1 *)
RetryAfter(ms) ==
    LET secs == (ms + 500) \div 1000 IN IF secs = 0 THEN 1 ELSE secs

(* the record of the run: a minute of a key begins with its first request
   and ends 60 seconds later, or 60 seconds after its limit was exceeded *)
MinuteOver(h) ==
    \/ h.since = -1
    \/ h.exceededAt = -1 /\ now >= h.since + 60000
    \/ h.exceededAt # -1 /\ now >= h.exceededAt + 60000

Recorded(h, method, resolved) ==
    LET cur == IF MinuteOver(h) THEN [NoPasses EXCEPT !.since = now] ELSE h IN
    IF resolved
      THEN [cur EXCEPT !.count = @ + 1,
                       !.reads = IF method \in WriteMethods THEN @ ELSE @ + 1,
                       !.writes = IF method \in WriteMethods THEN @ + 1 ELSE @]
      ELSE [cur EXCEPT !.exceededAt = IF @ = -1 THEN now ELSE @]

handlers == <<store, pc, req, loc, resp, pre>>

(* rateLimitMiddleware: one point of the key of the request *)
RateLimitMiddleware(ip) ==
    LET res == Consume(rateLimiter[ip], 1) IN
    /\ rateLimiter' = [rateLimiter EXCEPT ![ip] = res.record]
    /\ sent' = IF res.resolved
                 THEN [NoSent EXCEPT !.by = "rateLimit", !.ip = ip, !.next = TRUE]
                 ELSE [NoSent EXCEPT !.by = "rateLimit", !.ip = ip, !.code = 429,
                                     !.retryAfter = RetryAfter(res.msBeforeNext)]
    /\ passes' = [passes EXCEPT ![ip] = Recorded(@, "", res.resolved)]
    /\ UNCHANGED <<handlers, now, cache>>

(* enhancedRateLimit: rateLimiter.consume(ip, maxRequests), on the limiter
   rateLimitMiddleware uses; the second argument of consume is the number of
   points the call consumes *)
EnhancedRateLimit(ip, method) ==
    LET maxRequests == IF method \in WriteMethods THEN WriteMax ELSE ReadMax
        res == Consume(rateLimiter[ip], maxRequests)
    IN
    /\ rateLimiter' = [rateLimiter EXCEPT ![ip] = res.record]
    /\ sent' = IF res.resolved
                 THEN [NoSent EXCEPT !.by = "enhanced", !.ip = ip, !.method = method,
                                     !.next = TRUE]
                 ELSE [NoSent EXCEPT !.by = "enhanced", !.ip = ip, !.method = method,
                                     !.code = 429,
                                     !.retryAfter = RetryAfter(res.msBeforeNext)]
    /\ passes' = [passes EXCEPT ![ip] = Recorded(@, method, res.resolved)]
    /\ UNCHANGED <<handlers, now, cache>>

(* time passes *)
Tick(d) ==
    /\ now' = now + d
    /\ UNCHANGED <<handlers, rateLimiter, cache, sent, passes>>

(* Middleware: the response cache *)

(* CACHE_TTL = 5 * 60 * 1000 *)
CACHE_TTL == 5 * 60 * 1000

(* the wrapper deletes an entry when cache.size > 100 *)
CacheMax == 100

(* cache: the entries of the Map in its iteration order, which is the order
   in which the keys were first set.  key stands for the string made of
   req.url and req.query; inserted records when the key was first set *)
CacheGet(key) == { i \in 1..Len(cache) : cache[i].key = key }

(* cache.set(key, {data, timestamp}): a key the Map holds keeps its place *)
CacheSet(c, key, data) ==
    IF \E i \in 1..Len(c) : c[i].key = key
      THEN [i \in 1..Len(c) |-> IF c[i].key = key
                                  THEN [c[i] EXCEPT !.data = data, !.timestamp = now]
                                  ELSE c[i]]
      ELSE Append(c, [key |-> key, data |-> data, timestamp |-> now, inserted |-> now])

(* faulty variant: the last key of the Map is deleted *)
CacheEvictNewest(c) ==
    IF Len(c) > CacheMax THEN SubSeq(c, 1, Len(c) - 1) ELSE c

(* if (cache.size > 100) cache.delete(cache.keys().next().value) *)
CacheEvict(c) ==
    IF Len(c) > CacheMax THEN Tail(c) ELSE c

(* the body the handler behind the middleware passes to res.json: it names
   the request, the time of the answer and the status the handler set with
   res.status before it (an error body under an error status) *)
Payload(key, status) == <<key, now, status>>

(* the statuses a handler behind the middleware answers with *)
HandlerStatuses == {200, 500}

(* cacheMiddleware up to next(): a request that is not a GET goes to next();
   a GET is answered from the cache when the entry of its key is younger than
   CACHE_TTL, and goes to next() with res.json wrapped otherwise *)
CacheMiddleware(method, key) ==
    /\ ~sent.wrapped
    /\ LET request == [NoSent EXCEPT !.by = "cache", !.method = method, !.key = key,
                                     !.at = now]
       IN
       sent' = IF method # "GET"
                 THEN [request EXCEPT !.next = TRUE]
                 ELSE IF \E i \in CacheGet(key) : now - cache[i].timestamp < CACHE_TTL
                        THEN LET i == CHOOSE i \in CacheGet(key) : TRUE IN
                             [request EXCEPT !.code = 200, !.data = cache[i].data]
                        ELSE [request EXCEPT !.next = TRUE, !.wrapped = TRUE]
    /\ UNCHANGED <<handlers, now, rateLimiter, cache, passes>>

(* faulty variant: only a body answered with status 200 is cached *)
ResJsonOkOnly(status) ==
    /\ sent.wrapped
    /\ LET set == IF status = 200
                    THEN CacheSet(cache, sent.key, Payload(sent.key, status))
                    ELSE cache
       IN
       /\ cache' = CacheEvict(set)
       /\ sent' = [sent EXCEPT !.wrapped = FALSE, !.code = status,
                               !.data = Payload(sent.key, status),
                               !.evicted = IF CacheEvict(set) = set THEN <<>>
                                           ELSE << CHOOSE e \in {set[i] : i \in 1..Len(set)} :
                                                     \A j \in 1..Len(cache') : cache'[j] # e >>]
    /\ UNCHANGED <<handlers, now, rateLimiter, passes>>

(* the wrapped res.json: the handler answers with the status it has set, the
   body is cached whatever that status is, and an entry is deleted when the
   cache has grown beyond its size *)
ResJson(status) ==
    /\ sent.wrapped
    /\ LET set == CacheSet(cache, sent.key, Payload(sent.key, status)) IN
       /\ cache' = CacheEvict(set)
       /\ sent' = [sent EXCEPT !.wrapped = FALSE, !.code = status,
                               !.data = Payload(sent.key, status),
                               !.evicted = IF CacheEvict(set) = set THEN <<>>
                                           ELSE << CHOOSE e \in {set[i] : i \in 1..Len(set)} :
                                                     \A j \in 1..Len(cache') : cache'[j] # e >>]
    /\ UNCHANGED <<handlers, now, rateLimiter, passes>>

OkOnly == {"ok"}
OkOrError == {"ok", "error"}
Outcomes == {"ok", "error", "throw"}

StoreCall(p, outs) ==
    \/ CreateGuestRead(p, outs)
    \/ CreateRoomRead(p, outs)
    \/ CreateConflictQuery(p, outs)
    \/ CreateInsert(p, outs)
    \/ CreateRoomUpdate(p, outs)
    \/ CheckInRead(p, outs)
    \/ CheckInWrite(p, outs)
    \/ CheckOutRead(p, outs)
    \/ CheckOutWrite(p, outs)
    \/ CheckOutRoomUpdate(p, outs)
    \/ CancelRead(p, outs)
    \/ CancelWrite(p, outs)
    \/ CancelRoomUpdate(p, outs)

(* One request at a time, every store call succeeding *)
NextSeq ==
    \/ \E r \in LifecycleRequests : Receive(1, r, TRUE)
    \/ StoreCall(1, OkOnly)
    \/ Resolve(1)

SpecSeq == Init /\ [][NextSeq]_vars

(* One request at a time, every store call succeeding, returning an error or
   throwing; the bookings are made on room 1 *)
FailRequests == { r \in LifecycleRequests : r.room_id # 2 }

NextFail ==
    \/ \E r \in FailRequests : Receive(1, r, TRUE)
    \/ StoreCall(1, Outcomes)
    \/ Resolve(1)

SpecFail == Init /\ [][NextFail]_vars

(* Requests of concurrent invocations that all concern room 1 *)
RaceCreateRequests ==
    { r \in CreateRequests : r.guest_id = 1 /\ r.room_id = 1 /\ ValidBooking(r) }

RaceRequests ==
    RaceCreateRequests
      \cup { r \in CheckInRequests \cup CheckOutRequests \cup CancelRequests : r.id # NoId }

(* Concurrent CreateBooking invocations, every store call succeeding *)
NextCreateRace ==
    \E p \in Procs :
       \/ \E r \in RaceCreateRequests : Receive(p, r, FALSE)
       \/ CreateGuestRead(p, OkOnly)
       \/ CreateRoomRead(p, OkOnly)
       \/ CreateConflictQuery(p, OkOnly)
       \/ CreateInsert(p, OkOnly)
       \/ CreateRoomUpdate(p, OkOnly)
       \/ Resolve(p)

SpecCreateRace == Init /\ [][NextCreateRace]_vars

(* Concurrent invocations of the four lifecycle operations, every store call
   succeeding *)
NextConc ==
    \E p \in Procs :
       \/ \E r \in RaceRequests : Receive(p, r, FALSE)
       \/ StoreCall(p, OkOnly)
       \/ Resolve(p)

SpecConc == Init /\ [][NextConc]_vars

(* CreateBooking and UpdateBooking, one request at a time, every store call
   succeeding; the bookings are made by guest 1 on the two rooms *)
UpdateSpecRequests ==
    { r \in CreateRequests : r.guest_id = 1 /\ r.room_id \in {1, 2} /\ ValidBooking(r) }
      \cup UpdateRequests

NextUpdate ==
    \/ \E r \in UpdateSpecRequests : Receive(1, r, TRUE)
    \/ CreateGuestRead(1, OkOnly)
    \/ CreateRoomRead(1, OkOnly)
    \/ CreateConflictQuery(1, OkOnly)
    \/ CreateInsert(1, OkOnly)
    \/ CreateRoomUpdate(1, OkOnly)
    \/ UpdateRead(1, OkOnly)
    \/ UpdateWrite(1, OkOnly)
    \/ Resolve(1)

SpecUpdate == Init /\ [][NextUpdate]_vars

(* The lifecycle of bookings of guest 1 on room 1 together with the deletion
   of guests and rooms, one request at a time, every store call succeeding *)
DeleteSpecRequests ==
    { r \in LifecycleRequests : Route(r) = "create" =>
         (r.guest_id = 1 /\ r.room_id = 1 /\ ValidBooking(r)) }

NextDelete ==
    \/ \E r \in DeleteSpecRequests : Receive(1, r, TRUE)
    \/ \E r \in DeleteGuestRequests : ReceiveGuests(1, r, TRUE)
    \/ \E r \in DeleteRoomRequests : ReceiveRooms(1, r, TRUE)
    \/ StoreCall(1, OkOnly)
    \/ DeleteGuestQuery(1, OkOnly)
    \/ DeleteGuestDelete(1, OkOnly)
    \/ DeleteRoomQuery(1, OkOnly)
    \/ DeleteRoomDelete(1, OkOnly)
    \/ Resolve(1)

SpecDelete == Init /\ [][NextDelete]_vars

(* Creation and update of guests and of rooms, one request at a time, every
   store call succeeding *)
NextUnique ==
    \/ \E r \in GuestRequests : ReceiveGuests(1, r, TRUE)
    \/ \E r \in RoomRequests : ReceiveRooms(1, r, TRUE)
    \/ CreateGuestDuplicateRead(1, OkOnly)
    \/ CreateGuestInsert(1, OkOnly)
    \/ UpdateGuestRead(1, OkOnly)
    \/ UpdateGuestDuplicateRead(1, OkOnly)
    \/ UpdateGuestWrite(1, OkOnly)
    \/ CreateRoomDuplicateRead(1, OkOnly)
    \/ CreateRoomInsert(1, OkOnly)
    \/ UpdateRoomRead(1, OkOnly)
    \/ UpdateRoomDuplicateRead(1, OkOnly)
    \/ UpdateRoomWrite(1, OkOnly)
    \/ Resolve(1)

SpecUnique == Init /\ [][NextUnique]_vars

(* The five booking operations, one request at a time, every store call
   succeeding, returning an error or throwing; the bookings are made by guest
   1 on room 1 for the first night, and the updates set the status *)
OpsRequests ==
    { r \in CreateRequests : r.guest_id = 1 /\ r.room_id = 1 /\ r.check_in_date = 1
                               /\ r.check_out_date = 1 /\ ValidBooking(r) }
      \cup CheckInRequests \cup CheckOutRequests \cup CancelRequests
      \cup { r \in UpdateRequests : PatchFields(r) = {"status"} /\ ValidPatch(r) }

NextOps ==
    \/ \E r \in OpsRequests : Receive(1, r, TRUE)
    \/ StoreCall(1, Outcomes)
    \/ UpdateRead(1, Outcomes)
    \/ UpdateWrite(1, Outcomes)
    \/ Resolve(1)

SpecOps == Init /\ [][NextOps]_vars

-----------------------------------------------------------------------------
(* Properties *)

(* CreateBooking of guest 1 on rooms 1 and 2 with the deletion of guests and
   rooms, two invocations interleaved at their store calls, every store call
   succeeding *)
DeleteRaceRequests ==
    { r \in CreateRequests : r.guest_id = 1 /\ r.room_id \in {1, 2} /\ ValidBooking(r) }
      \cup { r \in DeleteGuestRequests : r.id = 1 }
      \cup { r \in DeleteRoomRequests : r.id \in {1, 2} }

NextDeleteRace ==
    \E p \in Procs :
       \/ \E r \in DeleteRaceRequests :
             \/ r.api = "bookings" /\ Receive(p, r, FALSE)
             \/ r.api = "guests" /\ ReceiveGuests(p, r, FALSE)
             \/ r.api = "rooms" /\ ReceiveRooms(p, r, FALSE)
       \/ CreateGuestRead(p, OkOnly)
       \/ CreateRoomRead(p, OkOnly)
       \/ CreateConflictQuery(p, OkOnly)
       \/ CreateInsert(p, OkOnly)
       \/ CreateRoomUpdate(p, OkOnly)
       \/ DeleteGuestQuery(p, OkOnly)
       \/ DeleteGuestDelete(p, OkOnly)
       \/ DeleteRoomQuery(p, OkOnly)
       \/ DeleteRoomDelete(p, OkOnly)
       \/ Resolve(p)

SpecDeleteRace == Init /\ [][NextDeleteRace]_vars

(* The bookings list over the stores that creates and cancellations of
   guest 1's bookings produce, one request at a time; the list query may fail *)
ListSpecRequests ==
    { r \in CreateRequests : r.guest_id = 1 /\ r.room_id \in {1, 2} /\ ValidBooking(r) }
      \cup CancelRequests \cup ListRequests

NextList ==
    \/ \E r \in ListSpecRequests : Receive(1, r, TRUE)
    \/ CreateGuestRead(1, OkOnly)
    \/ CreateRoomRead(1, OkOnly)
    \/ CreateConflictQuery(1, OkOnly)
    \/ CreateInsert(1, OkOnly)
    \/ CreateRoomUpdate(1, OkOnly)
    \/ CancelRead(1, OkOnly)
    \/ CancelWrite(1, OkOnly)
    \/ CancelRoomUpdate(1, OkOnly)
    \/ ListQuery(1, Outcomes)
    \/ Resolve(1)

SpecList == Init /\ [][NextList]_vars

(* Every method and action of the bookings endpoint, one request at a time,
   every store call succeeding *)
NextRoute ==
    \/ \E r \in MethodRequests : Receive(1, r, TRUE)
    \/ StoreCall(1, OkOnly)
    \/ UpdateRead(1, OkOnly)
    \/ UpdateWrite(1, OkOnly)
    \/ ListQuery(1, OkOnly)
    \/ Resolve(1)

SpecRoute == Init /\ [][NextRoute]_vars

(* rateLimitMiddleware under the requests of two clients while time passes:
   MaxWindows minutes are observed, client a sends up to MaxOver requests
   beyond its limit, client b up to MaxOther requests a minute *)
MaxWindows == 2
MaxOver == 2
MaxOther == 2

LimiterTicks == {Duration * 1000 - 300, Duration * 1000}

LimiterRequest(ip) ==
    Live(rateLimiter[ip]) =>
       rateLimiter[ip].consumedPoints < (IF ip = "a" THEN Points + MaxOver ELSE MaxOther)

NextRateLimit ==
    \/ \E ip \in Ips : LimiterRequest(ip) /\ RateLimitMiddleware(ip)
    \/ \E d \in LimiterTicks : now + d <= MaxWindows * Duration * 1000 /\ Tick(d)

SpecRateLimit == Init /\ [][NextRateLimit]_vars

(* enhancedRateLimit under the GET and POST requests of client a and the GET
   requests of client b while time passes *)
NextEnhanced ==
    \/ \E ip \in Ips : \E method \in {"GET", "POST"} :
          /\ ip = "b" => method = "GET"
          /\ Live(rateLimiter[ip]) => rateLimiter[ip].consumedPoints < Points + MaxOver
          /\ EnhancedRateLimit(ip, method)
    \/ \E d \in LimiterTicks : now + d <= MaxWindows * Duration * 1000 /\ Tick(d)

SpecEnhanced == Init /\ [][NextEnhanced]_vars

(* cacheMiddleware under GET and POST requests while time passes.  A request
   asks for the first key of the cache, for its last key, or for a key not
   asked for before (up to MaxNewKeys keys beyond the size of the cache);
   twice the TTL is observed, and time passes while the cache holds at most
   MaxAged entries or all but at most MaxAged of its size.  The handler
   behind the middleware answers 200, or an error while the cache holds at
   most one entry *)
MaxNewKeys == 2
MaxAged == 1

CacheHorizon == 2 * CACHE_TTL

CacheTicks == {CACHE_TTL - 1, CACHE_TTL}

CacheKeys ==
    IF cache = <<>> THEN {1}
    ELSE {cache[1].key, cache[Len(cache)].key}
           \cup { k \in {cache[Len(cache)].key + 1} : k <= CacheMax + MaxNewKeys }

NextCache ==
    \/ \E method \in {"GET", "POST"} : \E key \in CacheKeys : CacheMiddleware(method, key)
    \/ \E status \in HandlerStatuses :
          /\ status # 200 => Len(cache) <= 1
          /\ ResJson(status)
    \/ \E d \in CacheTicks :
          /\ now + d <= CacheHorizon
          /\ Len(cache) <= MaxAged \/ Len(cache) >= CacheMax - MaxAged
          /\ Tick(d)

SpecCache == Init /\ [][NextCache]_vars

(* The lifecycle of bookings of guest 1 on room 1 together with the deletion
   of guests and rooms, one request at a time; the store calls of the
   deletions succeed or return an error *)
NextDeleteFail ==
    \/ \E r \in DeleteSpecRequests : Receive(1, r, TRUE)
    \/ \E r \in DeleteGuestRequests : ReceiveGuests(1, r, TRUE)
    \/ \E r \in DeleteRoomRequests : ReceiveRooms(1, r, TRUE)
    \/ StoreCall(1, OkOnly)
    \/ DeleteGuestQuery(1, OkOrError)
    \/ DeleteGuestDelete(1, OkOrError)
    \/ DeleteRoomQuery(1, OkOrError)
    \/ DeleteRoomDelete(1, OkOrError)
    \/ Resolve(1)

SpecDeleteFail == Init /\ [][NextDeleteFail]_vars

(* Every method and action of the bookings endpoint, one request at a time,
   each store call succeeding, returning an error or throwing.  Every store
   call returns and the code after it runs: a handler that can take a step
   does so *)
HandlerStep ==
    \/ StoreCall(1, Outcomes)
    \/ UpdateRead(1, Outcomes)
    \/ UpdateWrite(1, Outcomes)
    \/ ListQuery(1, Outcomes)
    \/ Resolve(1)

NextLive ==
    \/ \E r \in MethodRequests : Receive(1, r, FALSE)
    \/ HandlerStep

SpecLive == Init /\ [][NextLive]_vars /\ WF_vars(HandlerStep)

(* Glossary: two inclusive date ranges overlap *)
Overlap(a1, a2, b1, b2) == a1 <= b2 /\ a2 >= b1

Active(b) == b.status \in {"booked", "checked_in"}

RangesOverlap(a, b) ==
    Overlap(a.check_in_date, a.check_out_date, b.check_in_date, b.check_out_date)

(* the invocation of process 1 has answered, and was routed to handler h *)
Answered(h) == pc[1] = "done" /\ req[1].api = "bookings" /\ Route(req[1]) = h

PreIds == 1..Len(pre.bookings)

StoreUnchanged ==
    /\ guests = pre.guests
    /\ rooms = pre.rooms
    /\ bookings = pre.bookings

(* the active bookings of the store before the request that lie on the
   requested room and overlap the requested range *)
PreOverlapping ==
    { i \in PreIds : /\ pre.bookings[i].room_id = req[1].room_id
                     /\ Active(pre.bookings[i])
                     /\ RangesOverlap(pre.bookings[i], req[1]) }

(* C1: with one operation at a time and every store call succeeding, no two
   active bookings (booked or checked_in) on the same room have overlapping
   date ranges. *)
C1_NoDoubleBooking ==
    \A i \in BookingIds : \A j \in BookingIds :
        (i < j /\ bookings[i].room_id = bookings[j].room_id
               /\ Active(bookings[i]) /\ Active(bookings[j]))
          => ~RangesOverlap(bookings[i], bookings[j])

(* a second booking was accepted on a room for a range that overlaps an
   earlier booking of that room, which is no longer active *)
C1_Witness ==
    \E i \in BookingIds : \E j \in BookingIds :
        /\ i < j
        /\ bookings[i].room_id = bookings[j].room_id
        /\ RangesOverlap(bookings[i], bookings[j])
        /\ ~Active(bookings[i])
        /\ Active(bookings[j])

(* C2: a CreateBooking whose guest exists, whose room exists and is available
   and whose conflict query succeeded is rejected with the conflict message if
   and only if an active booking on that room overlaps the requested range. *)
C2_ConflictIffOverlap ==
    (Route(req[1]) = "create" /\ loc[1].conflict \in {"found", "passed"})
      => ((pc[1] = "done" /\ resp[1] = Response(400, MsgConflict, 0))
            <=> PreOverlapping # {})

(* C3 as stated: a CreateBooking for a range that overlaps (or only touches the
   last day of) an active booking of the same room is rejected with the
   conflict message, and inserts nothing. *)
C3_OverlapRejectedAsConflict ==
    (Answered("create") /\ ValidBooking(req[1]) /\ req[1].guest_id \in pre.guests
       /\ PreOverlapping # {})
      => (resp[1] = Response(400, MsgConflict, 0) /\ bookings = pre.bookings)

(* C3 amended: such a CreateBooking is rejected with 'Room is not available',
   the room having been left unavailable by the earlier booking, and inserts
   nothing. *)
C3_OverlapRejectedAsUnavailable ==
    (Answered("create") /\ ValidBooking(req[1]) /\ req[1].guest_id \in pre.guests
       /\ PreOverlapping # {})
      => (resp[1] = Response(400, MsgRoomUnavailable, 0) /\ bookings = pre.bookings)

(* a rejected request that starts on the last day of a booked booking *)
C3_Witness ==
    /\ Answered("create")
    /\ resp[1].code = 400
    /\ \E i \in PreOverlapping :
         /\ pre.bookings[i].status = "booked"
         /\ pre.bookings[i].check_in_date < pre.bookings[i].check_out_date
         /\ pre.bookings[i].check_out_date = req[1].check_in_date

(* C4: concurrent CreateBooking invocations: one that passed the conflict
   check always inserts its booking, whatever was inserted in between, so two
   invocations that both passed it leave two booked bookings on the room. *)
C4_PassedCheckInserts ==
    \A p \in Procs :
        (pc[p] = "done" /\ loc[p].conflict = "passed")
          => /\ resp[p].code = 201
             /\ resp[p].id \in BookingIds
             /\ bookings[resp[p].id].status = "booked"
             /\ bookings[resp[p].id].room_id = req[p].room_id
             /\ RangesOverlap(bookings[resp[p].id], req[p])
             /\ \A q \in Procs \ {p} :
                   (pc[q] = "done" /\ loc[q].conflict = "passed")
                     => resp[q].id # resp[p].id

(* both invocations answered 201 and the store holds two booked bookings on
   the same room with overlapping ranges *)
C4_Witness ==
    /\ \A p \in Procs : pc[p] = "done" /\ resp[p].code = 201
    /\ \E i \in BookingIds : \E j \in BookingIds :
         /\ i # j
         /\ bookings[i].room_id = bookings[j].room_id
         /\ bookings[i].status = "booked"
         /\ bookings[j].status = "booked"
         /\ RangesOverlap(bookings[i], bookings[j])

(* C5: every change of a booking's stored status is booked -> checked_in,
   checked_in -> checked_out or booked -> cancelled, also when the store calls
   of concurrent operations interleave. *)
C5_LegalTransitions ==
    [][\A i \in BookingIds :
          bookings'[i].status # bookings[i].status
            => <<bookings[i].status, bookings'[i].status>> \in
                 { <<"booked", "checked_in">>, <<"checked_in", "checked_out">>,
                   <<"booked", "cancelled">> }]_vars

(* C6: CheckIn with store calls succeeding: NotFound for an unknown id;
   otherwise success iff the stored status is booked, and then the status is
   checked_in and actual_check_in is set; otherwise InvalidTransition and the
   booking is unchanged.  No room's is_available changes. *)
C6_CheckIn ==
    (Route(req[1]) = "checkin" /\ req[1].id # NoId)
      => /\ rooms = pre.rooms
         /\ guests = pre.guests
         /\ pc[1] = "done" =>
              LET id == req[1].id IN
              IF id \notin PreIds
                THEN resp[1] = Response(404, MsgBookingNotFound, 0) /\ StoreUnchanged
                ELSE /\ resp[1].code = 200 <=> pre.bookings[id].status = "booked"
                     /\ resp[1].code = 200 =>
                          bookings = [pre.bookings EXCEPT
                                        ![id] = [@ EXCEPT !.status = "checked_in",
                                                          !.actual_check_in = Timestamp]]
                     /\ resp[1].code # 200 =>
                          /\ resp[1] = Response(400, MsgOnlyBooked, 0)
                          /\ StoreUnchanged

C6_Witness ==
    /\ Answered("checkin")
    /\ resp[1].code = 200
    /\ pre.bookings[req[1].id].status = "booked"
    /\ bookings[req[1].id].actual_check_in = Timestamp

(* C7: CheckOut with store calls succeeding: NotFound for an unknown id;
   otherwise success iff the stored status is checked_in, and then the status
   is checked_out, actual_check_out is set and the booking's room is
   available; otherwise InvalidTransition and nothing changes. *)
C7_CheckOut ==
    (Answered("checkout") /\ req[1].id # NoId)
      => LET id == req[1].id IN
         IF id \notin PreIds
           THEN resp[1] = Response(404, MsgBookingNotFound, 0) /\ StoreUnchanged
           ELSE /\ resp[1].code = 200 <=> pre.bookings[id].status = "checked_in"
                /\ resp[1].code = 200 =>
                     /\ bookings = [pre.bookings EXCEPT
                                      ![id] = [@ EXCEPT !.status = "checked_out",
                                                        !.actual_check_out = Timestamp]]
                     /\ rooms = [pre.rooms EXCEPT ![pre.bookings[id].room_id] = TRUE]
                     /\ rooms[pre.bookings[id].room_id]
                     /\ guests = pre.guests
                /\ resp[1].code # 200 =>
                     /\ resp[1] = Response(400, MsgOnlyCheckedIn, 0)
                     /\ StoreUnchanged

C7_Witness ==
    /\ Answered("checkout")
    /\ resp[1].code = 200
    /\ ~pre.rooms[pre.bookings[req[1].id].room_id]
    /\ rooms[pre.bookings[req[1].id].room_id]
    /\ bookings[req[1].id].status = "checked_out"

(* C8: CancelBooking with store calls succeeding: NotFound for an unknown id;
   otherwise success iff the stored status is booked, and then the status is
   cancelled and the room is available; for checked_in, cancelled and
   checked_out it fails with three pairwise different messages and changes
   nothing. *)
C8_Cancel ==
    (Answered("cancel") /\ req[1].id # NoId)
      => LET id == req[1].id IN
         IF id \notin PreIds
           THEN resp[1] = Response(404, MsgBookingNotFound, 0) /\ StoreUnchanged
           ELSE LET was == pre.bookings[id].status IN
                /\ resp[1].code = 200 <=> was = "booked"
                /\ resp[1].code = 200 =>
                     /\ bookings = [pre.bookings EXCEPT ![id] = [@ EXCEPT !.status = "cancelled"]]
                     /\ rooms = [pre.rooms EXCEPT ![pre.bookings[id].room_id] = TRUE]
                     /\ rooms[pre.bookings[id].room_id]
                     /\ guests = pre.guests
                /\ resp[1].code # 200 =>
                     /\ resp[1].code = 400
                     /\ StoreUnchanged
                     /\ was = "checked_in" => resp[1].msg = "Cannot cancel a booking for a checked-in guest"
                     /\ was = "cancelled" => resp[1].msg = "Booking is already cancelled"
                     /\ was = "checked_out" => resp[1].msg = "Cannot cancel a completed booking"

(* CancelBooking of a booking that was checked in and checked out *)
C8_Witness ==
    /\ Answered("cancel")
    /\ req[1].id \in PreIds
    /\ pre.bookings[req[1].id].status = "checked_out"
    /\ pre.bookings[req[1].id].actual_check_in = Timestamp
    /\ pre.bookings[req[1].id].actual_check_out = Timestamp
    /\ resp[1] = Response(400, MsgCancelCompleted, 0)

(* C9: a validated CreateBooking whose store calls succeed answers 'Guest not
   found' if the guest does not exist, else 'Room not found' if the room does
   not exist, else 'Room is not available' if the room's is_available is
   false; in the three cases nothing is inserted and no room is modified. *)
C9_CheckOrder ==
    (Answered("create") /\ ValidBooking(req[1]) /\ ~loc[1].failed)
      => LET g == req[1].guest_id
             r == req[1].room_id
         IN  /\ g \notin pre.guests =>
                  resp[1] = Response(400, MsgGuestNotFound, 0) /\ StoreUnchanged
             /\ (g \in pre.guests /\ r \notin DOMAIN pre.rooms) =>
                  resp[1] = Response(400, MsgRoomNotFound, 0) /\ StoreUnchanged
             /\ (g \in pre.guests /\ r \in DOMAIN pre.rooms /\ ~pre.rooms[r]) =>
                  resp[1] = Response(400, MsgRoomUnavailable, 0) /\ StoreUnchanged

(* an unavailable room that carries no active booking is refused *)
C9_Witness ==
    /\ Answered("create")
    /\ ~loc[1].failed
    /\ resp[1] = Response(400, MsgRoomUnavailable, 0)
    /\ \A i \in PreIds :
         pre.bookings[i].room_id = req[1].room_id => ~Active(pre.bookings[i])

(* C10: a CreateBooking that passes every check, with store calls succeeding,
   adds exactly one booking with status booked carrying the requested guest,
   room, dates and amount, leaves the room unavailable, and changes nothing
   else; reading the booking back gives status booked. *)
C10_CreateEffect ==
    /\ (Answered("create") /\ loc[1].conflict = "passed") => resp[1].code = 201
    /\ (Answered("create") /\ resp[1].code = 201) =>
         /\ bookings = Append(pre.bookings,
                [guest_id |-> req[1].guest_id, room_id |-> req[1].room_id,
                 check_in_date |-> req[1].check_in_date,
                 check_out_date |-> req[1].check_out_date,
                 total_amount |-> req[1].total_amount, status |-> "booked",
                 actual_check_in |-> Null, actual_check_out |-> Null])
         /\ resp[1].id = Len(bookings)
         /\ bookings[resp[1].id].status = "booked"
         /\ rooms = [pre.rooms EXCEPT ![req[1].room_id] = FALSE]
         /\ ~rooms[req[1].room_id]
         /\ guests = pre.guests

(* a booking for several nights was created beside an earlier booking *)
C10_Witness ==
    /\ Answered("create")
    /\ resp[1].code = 201
    /\ pre.bookings # <<>>
    /\ req[1].check_in_date < req[1].check_out_date

-----------------------------------------------------------------------------
(* Failures of single store calls *)

(* C11: when the insert of CreateBooking succeeded and the write that sets
   the room's is_available to false returned an error, the response is still
   201 with the created booking, the booking is stored with status booked, and
   the room keeps the is_available it had (true, as the handler read it) *)
C11_CreateSurvivesRoomUpdateError ==
    (Answered("create") /\ loc[1].newid # 0 /\ loc[1].flip = "error") =>
        /\ resp[1] = Response(201, MsgCreated, loc[1].newid)
        /\ bookings = Append(pre.bookings, NewBooking(req[1]))
        /\ bookings[loc[1].newid].status = "booked"
        /\ rooms = pre.rooms
        /\ rooms[req[1].room_id]

(* a creation whose room update failed has answered *)
C11_Witness ==
    /\ Answered("create")
    /\ loc[1].newid # 0
    /\ loc[1].flip = "error"
    /\ resp[1].code = 201

(* the booking written by CheckOut or CancelBooking, and its room *)
Target == bookings[req[1].id]

NoActiveBookingOn(room) ==
    \A i \in BookingIds : bookings[i].room_id = room => ~Active(bookings[i])

(* C12: when the status update of CheckOut or CancelBooking succeeded and the
   write that sets the room's is_available to true returned an error, the
   response is still 200, the booking keeps its new status and the room keeps
   the is_available it had *)
C12_TransitionSurvivesRoomUpdateError ==
    (pc[1] = "done" /\ Route(req[1]) \in {"checkout", "cancel"} /\ loc[1].flip = "error") =>
        /\ resp[1].code = 200
        /\ resp[1].msg = (IF Route(req[1]) = "checkout" THEN MsgCheckedOut ELSE MsgCancelled)
        /\ Target.status = (IF Route(req[1]) = "checkout" THEN "checked_out" ELSE "cancelled")
        /\ bookings = [pre.bookings EXCEPT ![req[1].id] = Target]
        /\ rooms = pre.rooms

(* after such a run a room is unavailable and no active booking is on it *)
C12_Witness ==
    /\ pc[1] = "done"
    /\ Route(req[1]) \in {"checkout", "cancel"}
    /\ loc[1].flip = "error"
    /\ resp[1].code = 200
    /\ ~rooms[Target.room_id]
    /\ NoActiveBookingOn(Target.room_id)

(* C13: when the conflict query of CreateBooking returned an error or threw,
   the creation is not refused: the handler goes on to the insert, and the
   booking the insert stores has status booked, conflicts or not; the only
   failures left are those of the insert and of what follows it *)
C13_ConflictQueryFailureInserts ==
    loc[1].conflict = "skipped" =>
        /\ pc[1] \in {"c_insert", "c_roomupd", "done"}
        /\ loc[1].newid # 0 =>
              /\ bookings = Append(pre.bookings, NewBooking(req[1]))
              /\ bookings[loc[1].newid].status = "booked"
        /\ (pc[1] = "done" /\ loc[1].newid = 0) =>
              resp[1] \in {Response(500, MsgCreateFailed, 0), Response(500, MsgInternal, 0)}
        /\ (pc[1] = "done" /\ loc[1].newid # 0 /\ loc[1].flip # "throw") =>
              resp[1] = Response(201, MsgCreated, loc[1].newid)

(* a booking was stored beside an active booking of the same, available room
   whose dates overlap its own, the conflict query having failed *)
C13_Witness ==
    /\ loc[1].conflict = "skipped"
    /\ loc[1].newid # 0
    /\ pre.rooms[req[1].room_id]
    /\ \E i \in PreIds :
          /\ pre.bookings[i].room_id = req[1].room_id
          /\ Active(pre.bookings[i])
          /\ RangesOverlap(pre.bookings[i], bookings[loc[1].newid])

-----------------------------------------------------------------------------
(* The availability flag between operations *)

(* no handler is between two of its store calls *)
AtRest == pc[1] \in {"idle", "done"}

ActiveBookingsOn(room) ==
    { i \in BookingIds : bookings[i].room_id = room /\ Active(bookings[i]) }

(* C14: from rooms created available and no bookings, after any sequence of
   CreateBooking, CheckIn, CheckOut and CancelBooking run one at a time with
   every store call succeeding, a room whose is_available is false has at
   least one booking with status booked or checked_in *)
C14_UnavailableHasActiveBooking ==
    AtRest => \A r \in DOMAIN rooms : ~rooms[r] => ActiveBookingsOn(r) # {}

(* a room that was booked, released and booked again is unavailable *)
C14_Witness ==
    /\ AtRest
    /\ \E r \in DOMAIN rooms :
          /\ ~rooms[r]
          /\ ActiveBookingsOn(r) # {}
          /\ \E i \in BookingIds : bookings[i].room_id = r /\ ~Active(bookings[i])

-----------------------------------------------------------------------------
(* UpdateBooking *)

(* the row a patch leaves behind, column by column *)
Patched(old, patch) ==
    [guest_id |-> IF patch.guest_id # 0 THEN patch.guest_id ELSE old.guest_id,
     room_id |-> IF patch.room_id # 0 THEN patch.room_id ELSE old.room_id,
     check_in_date |-> IF patch.check_in_date # 0 THEN patch.check_in_date
                                                  ELSE old.check_in_date,
     check_out_date |-> IF patch.check_out_date # 0 THEN patch.check_out_date
                                                    ELSE old.check_out_date,
     total_amount |-> IF patch.total_amount # 0 THEN patch.total_amount
                                                ELSE old.total_amount,
     status |-> IF patch.status # "" THEN patch.status ELSE old.status,
     actual_check_in |-> old.actual_check_in,
     actual_check_out |-> old.actual_check_out]

(* C15: UpdateBooking with a valid patch on a stored booking answers 200
   whatever the status of the booking and writes the fields of the patch as
   given, with no availability or conflict check; no room's is_available and
   no actual_check_in or actual_check_out changes; on an id that is not stored
   it answers 404 and changes nothing *)
C15_UpdateAppliesPatch ==
    (Answered("update") /\ req[1].id # NoId /\ ValidPatch(req[1])) =>
        IF req[1].id \in PreIds
          THEN /\ resp[1] = Response(200, MsgUpdated, req[1].id)
               /\ bookings = [pre.bookings EXCEPT
                                ![req[1].id] = Patched(pre.bookings[req[1].id], req[1])]
               /\ rooms = pre.rooms
               /\ guests = pre.guests
          ELSE /\ resp[1] = Response(404, MsgBookingNotFound, 0)
               /\ StoreUnchanged

(* an update moved an ended booking back to an active status, onto a room and
   dates of another active booking *)
C15_Witness ==
    /\ Answered("update")
    /\ resp[1].code = 200
    /\ ~Active(pre.bookings[req[1].id])
    /\ Active(bookings[req[1].id])
    /\ \E j \in BookingIds \ {req[1].id} :
          /\ Active(bookings[j])
          /\ bookings[j].room_id = bookings[req[1].id].room_id
          /\ RangesOverlap(bookings[j], bookings[req[1].id])

-----------------------------------------------------------------------------
(* Deletion of guests and rooms *)

(* the invocation of process 1 has answered a request of the guests API or
   of the rooms API that was routed to handler h *)
RowAnswered(api, h) == pc[1] = "done" /\ req[1].api = api /\ RowRoute(req[1]) = h

KeysUnchanged == guestEmail = pre.guestEmail /\ roomNumber = pre.roomNumber

(* the bookings stored before the request that are active and refer to the
   guest, resp. the room, of the request *)
PreActiveOfGuest ==
    { i \in PreIds : pre.bookings[i].guest_id = req[1].id /\ Active(pre.bookings[i]) }

PreActiveOfRoom ==
    { i \in PreIds : pre.bookings[i].room_id = req[1].id /\ Active(pre.bookings[i]) }

(* C16: one request at a time, store calls succeeding: the deletion of a
   guest (of a room) is refused and changes nothing while a booking with status
   booked or checked_in refers to the guest (the room), and otherwise, so once
   every booking that refers to it is checked_out or cancelled, it succeeds and
   removes that row only *)
C16_DeleteGuards ==
    /\ (RowAnswered("guests", "delete") /\ req[1].id # NoId) =>
          IF PreActiveOfGuest # {}
            THEN /\ resp[1] = Response(400, MsgGuestHasActive, 0)
                 /\ StoreUnchanged /\ KeysUnchanged
            ELSE /\ resp[1] = Response(200, MsgGuestDeleted, req[1].id)
                 /\ guests = pre.guests \ {req[1].id}
                 /\ rooms = pre.rooms
                 /\ bookings = pre.bookings
    /\ (RowAnswered("rooms", "delete") /\ req[1].id # NoId) =>
          IF PreActiveOfRoom # {}
            THEN /\ resp[1] = Response(400, MsgRoomHasActive, 0)
                 /\ StoreUnchanged /\ KeysUnchanged
            ELSE /\ resp[1] = Response(200, MsgRoomDeleted, req[1].id)
                 /\ DOMAIN rooms = DOMAIN pre.rooms \ {req[1].id}
                 /\ \A r \in DOMAIN rooms : rooms[r] = pre.rooms[r]
                 /\ guests = pre.guests
                 /\ bookings = pre.bookings

(* a guest whose booking was cancelled has been deleted *)
C16_Witness ==
    /\ RowAnswered("guests", "delete")
    /\ resp[1].code = 200
    /\ req[1].id \in pre.guests
    /\ req[1].id \notin guests
    /\ \E i \in BookingIds :
          bookings[i].guest_id = req[1].id /\ bookings[i].status = "cancelled"

-----------------------------------------------------------------------------
(* Unique email and room number *)

Injective(f) == \A x, y \in DOMAIN f : f[x] = f[y] => x = y

PreGuestsWithEmail(e) == { g \in pre.guests : pre.guestEmail[g] = e }

PreRoomsWithNumber(n) == { r \in DOMAIN pre.rooms : pre.roomNumber[r] = n }

(* C20: one request at a time, store calls succeeding: a guest with a stored
   email (a room with a stored room_number) is not created; an update to the
   email (room_number) of another row is refused; an update that keeps the
   row's own value is accepted; so no two guests share an email and no two
   rooms a room_number *)
C20_UniqueEmailAndRoomNumber ==
    /\ Injective(guestEmail)
    /\ Injective(roomNumber)
    /\ (RowAnswered("guests", "create") /\ ValidGuest(req[1])) =>
          IF PreGuestsWithEmail(req[1].email) # {}
            THEN /\ resp[1] = Response(400, MsgEmailRegistered, 0)
                 /\ StoreUnchanged /\ KeysUnchanged
            ELSE /\ resp[1].code = 201
                 /\ guests = pre.guests \cup {resp[1].id}
                 /\ resp[1].id \notin pre.guests
                 /\ guestEmail[resp[1].id] = req[1].email
    /\ (RowAnswered("guests", "update") /\ ValidGuestPatch(req[1])
          /\ req[1].id \in pre.guests /\ req[1].email # "") =>
          IF PreGuestsWithEmail(req[1].email) \ {req[1].id} # {}
            THEN /\ resp[1] = Response(400, MsgEmailRegistered, 0)
                 /\ StoreUnchanged /\ KeysUnchanged
            ELSE /\ resp[1] = Response(200, MsgUpdated, req[1].id)
                 /\ guestEmail = [pre.guestEmail EXCEPT ![req[1].id] = req[1].email]
    /\ (RowAnswered("rooms", "create") /\ ValidRoom(req[1])) =>
          IF PreRoomsWithNumber(req[1].room_number) # {}
            THEN /\ resp[1] = Response(400, MsgRoomNumberExists, 0)
                 /\ StoreUnchanged /\ KeysUnchanged
            ELSE /\ resp[1].code = 201
                 /\ DOMAIN rooms = DOMAIN pre.rooms \cup {resp[1].id}
                 /\ resp[1].id \notin DOMAIN pre.rooms
                 /\ roomNumber[resp[1].id] = req[1].room_number
    /\ (RowAnswered("rooms", "update") /\ ValidRoomPatch(req[1])
          /\ req[1].id \in DOMAIN pre.rooms /\ req[1].room_number # "") =>
          IF PreRoomsWithNumber(req[1].room_number) \ {req[1].id} # {}
            THEN /\ resp[1] = Response(400, MsgRoomNumberExists, 0)
                 /\ StoreUnchanged /\ KeysUnchanged
            ELSE /\ resp[1] = Response(200, MsgUpdated, req[1].id)
                 /\ roomNumber = [pre.roomNumber EXCEPT ![req[1].id] = req[1].room_number]

(* beside another guest, a guest was updated with the email it already had *)
C20_Witness ==
    /\ RowAnswered("guests", "update")
    /\ resp[1].code = 200
    /\ req[1].email # ""
    /\ req[1].email = pre.guestEmail[req[1].id]
    /\ Cardinality(guests) > 1

-----------------------------------------------------------------------------
(* Booking records are kept *)

(* C17: no step of CreateBooking, CheckIn, CheckOut, CancelBooking or
   UpdateBooking removes a booking: the ids stored before the step are stored
   after it; and when CancelBooking answers 200 its booking is stored with
   status cancelled *)
C17_BookingsNeverRemoved ==
    [][ /\ BookingIds \subseteq 1..Len(bookings')
        /\ (pc'[1] = "done" /\ Route(req'[1]) = "cancel" /\ resp'[1].code = 200) =>
              /\ req'[1].id \in 1..Len(bookings')
              /\ bookings'[req'[1].id].status = "cancelled" ]_vars

(* a booking was cancelled and is stored, cancelled, beside another one *)
C17_Witness ==
    /\ Answered("cancel")
    /\ resp[1].code = 200
    /\ Len(bookings) > 1
    /\ Len(bookings) = Len(pre.bookings)
    /\ bookings[req[1].id].status = "cancelled"

-----------------------------------------------------------------------------
(* Validation of CreateBooking *)

(* C18: when the body of CreateBooking violates the schema on two or more
   fields, the details of the validation response hold one message for every
   violated field *)
C18_EveryViolationReported ==
    (Answered("create") /\ resp[1] = Response(400, MsgValidation, 0)) =>
        /\ Len(loc[1].details) = Len(BookingViolations(req[1]))
        /\ \A i \in 1..Len(loc[1].details) :
              loc[1].details[i] = BookingMessage(BookingViolations(req[1])[i])

(* C19: every booking CreateBooking stores has check_out_date after
   check_in_date, and a request with check_out_date equal to check_in_date is
   answered with a validation error and inserts nothing *)
C19_CheckOutAfterCheckIn ==
    /\ \A i \in BookingIds : bookings[i].check_out_date > bookings[i].check_in_date
    /\ (Answered("create") /\ req[1].check_out_date = req[1].check_in_date) =>
          /\ resp[1] = Response(400, MsgValidation, 0)
          /\ StoreUnchanged

-----------------------------------------------------------------------------
(* Retries *)

(* the booking named by the request, as it was stored before the request *)
PreTarget == pre.bookings[req[1].id]

(* the bookings stored before the request that carry the fields of the
   request: the rows an earlier CreateBooking of the same body inserted *)
PreSameBooking ==
    { i \in PreIds : /\ pre.bookings[i].guest_id = req[1].guest_id
                     /\ pre.bookings[i].room_id = req[1].room_id
                     /\ pre.bookings[i].check_in_date = req[1].check_in_date
                     /\ pre.bookings[i].check_out_date = req[1].check_out_date
                     /\ pre.bookings[i].total_amount = req[1].total_amount }

(* a CheckIn, CheckOut or CancelBooking on a booking on which the same
   operation completed before is refused with the message of the status
   guard, never reaches its writes and leaves guests, rooms and bookings as
   they were *)
TransitionRetryRefused ==
    /\ (req[1].api = "bookings" /\ Route(req[1]) = "checkin" /\ req[1].id \in PreIds
          /\ PreTarget.actual_check_in # Null)
         => /\ pc[1] # "ci_write"
            /\ StoreUnchanged
            /\ pc[1] = "done" => resp[1] = Response(400, MsgOnlyBooked, 0)
    /\ (req[1].api = "bookings" /\ Route(req[1]) = "checkout" /\ req[1].id \in PreIds
          /\ PreTarget.actual_check_out # Null)
         => /\ pc[1] \notin {"co_write", "co_room"}
            /\ StoreUnchanged
            /\ pc[1] = "done" => resp[1] = Response(400, MsgOnlyCheckedIn, 0)
    /\ (req[1].api = "bookings" /\ Route(req[1]) = "cancel" /\ req[1].id \in PreIds
          /\ PreTarget.status = "cancelled")
         => /\ pc[1] \notin {"x_write", "x_room"}
            /\ StoreUnchanged
            /\ pc[1] = "done" => resp[1] = Response(400, MsgCancelCancelled, 0)

(* C21: with one operation at a time and every store call succeeding, a
   CheckIn, CheckOut or CancelBooking re-issued for a booking on which it
   completed before is refused as an invalid transition and changes no
   booking and no room (no write is made); a CreateBooking re-issued while
   the booking it inserted is still booked or checked_in is rejected and
   stores no second booking *)
C21_RetryRejectedWhileActive ==
    /\ TransitionRetryRefused
    /\ (Answered("create") /\ \E i \in PreSameBooking : Active(pre.bookings[i]))
         => /\ resp[1].code = 400
            /\ StoreUnchanged

(* C21 as stated: a re-issued CreateBooking is rejected and stores no second
   booking, whatever became of the booking the first one inserted *)
C21_RetryRejected ==
    /\ TransitionRetryRefused
    /\ (Answered("create") /\ PreSameBooking # {})
         => /\ resp[1].code = 400
            /\ StoreUnchanged

(* a CreateBooking was re-issued while the booking it inserted was checked
   in, and was rejected *)
C21_Witness ==
    /\ Answered("create")
    /\ \E i \in PreSameBooking : Active(pre.bookings[i])
    /\ resp[1].code = 400
    /\ StoreUnchanged
    /\ \E i \in PreSameBooking : pre.bookings[i].status = "checked_in"

-----------------------------------------------------------------------------
(* One active booking per room *)

(* C28: from rooms created available and no bookings, with CreateBooking,
   CheckIn, CheckOut and CancelBooking run one at a time and every store call
   succeeding, every room has at most one booking with status booked or
   checked_in, whatever the dates of its bookings *)
C28_OneActiveBookingPerRoom ==
    \A r \in DOMAIN rooms : Cardinality(ActiveBookingsOn(r)) <= 1

(* a room carries one active booking and a released booking of the same
   dates *)
C28_Witness ==
    \E i \in BookingIds : \E j \in BookingIds :
       /\ bookings[i].room_id = bookings[j].room_id
       /\ Active(bookings[i])
       /\ ~Active(bookings[j])
       /\ bookings[i].check_in_date = bookings[j].check_in_date
       /\ bookings[i].check_out_date = bookings[j].check_out_date

(* C29: in the same setting, between operations, a room whose is_available
   is true has no booking with status booked or checked_in *)
C29_AvailableHasNoActiveBooking ==
    AtRest => \A r \in DOMAIN rooms : rooms[r] => ActiveBookingsOn(r) = {}

(* a room that was booked and released is available between operations,
   while the other room is held by an active booking *)
C29_Witness ==
    /\ AtRest
    /\ \E r \in DOMAIN rooms : \E s \in DOMAIN rooms :
          /\ rooms[r]
          /\ \E i \in BookingIds : bookings[i].room_id = r
          /\ ActiveBookingsOn(r) = {}
          /\ ~rooms[s]
          /\ ActiveBookingsOn(s) # {}

-----------------------------------------------------------------------------
(* The release of a room *)

(* the other bookings of the target's room that are booked or checked_in *)
OtherActiveBookings ==
    { i \in BookingIds : /\ i # req[1].id
                         /\ bookings[i].room_id = Target.room_id
                         /\ Active(bookings[i]) }

(* C30: a CheckOut or CancelBooking whose status update and room update both
   succeeded leaves the room of the booking with is_available true, other
   booked or checked_in bookings on that room or not *)
C30_ReleaseIgnoresOtherBookings ==
    (pc[1] = "done" /\ Route(req[1]) \in {"checkout", "cancel"} /\ loc[1].flip = "ok") =>
        /\ resp[1].code = 200
        /\ Target.room_id \in DOMAIN rooms => rooms[Target.room_id]

(* a CheckOut released a room on which another booking is still booked or
   checked_in *)
C30_Witness ==
    /\ pc[1] = "done"
    /\ Route(req[1]) = "checkout"
    /\ loc[1].flip = "ok"
    /\ OtherActiveBookings # {}
    /\ rooms[Target.room_id]

-----------------------------------------------------------------------------
(* Deletes interleaved with creates *)

(* C27: in every interleaving of CreateBooking with DeleteGuest and
   DeleteRoom, every stored booking with status booked or checked_in
   references a guest and a room that exist *)
C27_ActiveBookingsReferenceExistingRows ==
    \A i \in BookingIds :
       Active(bookings[i]) => /\ bookings[i].guest_id \in guests
                              /\ bookings[i].room_id \in DOMAIN rooms

-----------------------------------------------------------------------------
(* The bookings list *)

(* the bookings stored before the request that satisfy every filter the
   query gives *)
ListMatches ==
    { i \in PreIds :
        LET b == pre.bookings[i] IN
          /\ req[1].status = "" \/ b.status = req[1].status
          /\ req[1].guest_id = 0 \/ b.guest_id = req[1].guest_id
          /\ req[1].room_id = 0 \/ b.room_id = req[1].room_id
          /\ req[1].date_from = 0 \/ b.check_in_date >= req[1].date_from
          /\ req[1].date_to = 0 \/ b.check_out_date <= req[1].date_to }

(* the position of a matching booking when the latest comes first *)
ListRank(i) == Cardinality({ j \in ListMatches : j >= i })

ListSkip == IF req[1].skip = NoParam THEN 0 ELSE req[1].skip

ListLimit == IF req[1].limit = NoParam THEN DefaultLimit ELSE req[1].limit

(* C26: a list that succeeded returns bookings that satisfy every filter
   given, latest first, and of the matching bookings exactly those at
   positions skip+1 .. skip+limit (defaults 0 and 100); a list changes no
   stored record, however its query ends *)
C26_ListReturnsFilteredPage ==
    /\ (Answered("list") /\ resp[1].code = 200) =>
          LET d == resp[1].data IN
            /\ \A k \in 1..Len(d) : d[k] \in ListMatches
            /\ \A k \in 1..(Len(d) - 1) : d[k] > d[k + 1]
            /\ \A i \in ListMatches :
                  (\E k \in 1..Len(d) : d[k] = i)
                     <=> (ListSkip < ListRank(i) /\ ListRank(i) <= ListSkip + ListLimit)
    /\ (req[1].api = "bookings" /\ req[1].method = "GET") => StoreUnchanged

(* two stored bookings end by date_to and the list, limited to one row,
   returned the later one *)
C26_Witness ==
    /\ Answered("list")
    /\ resp[1].code = 200
    /\ req[1].date_to # 0
    /\ req[1].limit = 1
    /\ Cardinality(ListMatches) = 2
    /\ resp[1].data = <<2>>

-----------------------------------------------------------------------------
(* Dispatch by method and action *)

(* the responses each handler can give when every store call succeeds *)
HandlerMessages(h) ==
    CASE h = "create" -> {MsgValidation, MsgGuestNotFound, MsgRoomNotFound,
                          MsgRoomUnavailable, MsgConflict, MsgCreated}
      [] h = "checkin" -> {MsgIdRequired, MsgBookingNotFound, MsgOnlyBooked, MsgCheckedIn}
      [] h = "checkout" -> {MsgIdRequired, MsgBookingNotFound, MsgOnlyCheckedIn, MsgCheckedOut}
      [] h = "update" -> {MsgIdRequired, MsgValidation, MsgBookingNotFound, MsgUpdated}
      [] h = "cancel" -> {MsgIdRequired, MsgBookingNotFound, MsgCancelCheckedIn,
                          MsgCancelCancelled, MsgCancelCompleted, MsgCancelled}
      [] OTHER -> {}

(* the store calls of each handler, as positions of the invocation *)
HandlerLabels(h) ==
    CASE h = "create" -> {"c_guest", "c_room", "c_conflict", "c_insert", "c_roomupd"}
      [] h = "checkin" -> {"ci_read", "ci_write"}
      [] h = "checkout" -> {"co_read", "co_write", "co_room"}
      [] h = "update" -> {"u_read", "u_write"}
      [] h = "cancel" -> {"x_read", "x_write", "x_room"}
      [] h = "list" -> {"l_query"}
      [] OTHER -> {}

(* the handler the statement names for a method and an action *)
Dispatched(method, action) ==
    IF method = "POST" THEN "create"
    ELSE IF method = "GET" THEN "list"
    ELSE IF method = "DELETE" THEN "cancel"
    ELSE IF method = "PUT"
           THEN (IF action = "checkin" THEN "checkin"
                 ELSE IF action = "checkout" THEN "checkout" ELSE "update")
    ELSE ""

(* C22: an invocation of the bookings endpoint makes only the store calls of
   the handler its method and action select, and answers with one of that
   handler's responses; a method other than GET, POST, PUT, DELETE and
   OPTIONS is answered 405 and changes no stored record, and only such a
   method is; CheckIn, CheckOut, UpdateBooking and CancelBooking without a
   booking id are answered 400 "Booking ID is required" and change nothing *)
C22_DispatchByMethodAndAction ==
    (pc[1] # "idle" /\ req[1].api = "bookings") =>
       LET h == Dispatched(req[1].method, req[1].action) IN
         /\ pc[1] # "done" =>
               pc[1] \in HandlerLabels(h)
                          \cup (IF req[1].method = "OPTIONS" THEN {"preflight"} ELSE {})
         /\ (pc[1] = "done" /\ h \notin {"", "list"}) => resp[1].msg \in HandlerMessages(h)
         /\ (pc[1] = "done" /\ h = "list") => resp[1].code = 200 /\ StoreUnchanged
         /\ (pc[1] = "done" /\ h = "" /\ req[1].method # "OPTIONS")
               => resp[1] = Response(405, MsgMethodNotAllowed, 0) /\ StoreUnchanged
         /\ (pc[1] = "done" /\ resp[1].code = 405) => h = "" /\ req[1].method # "OPTIONS"
         /\ (h \in {"checkin", "checkout", "update", "cancel"} /\ req[1].id = NoId)
               => /\ pc[1] = "done"
                  /\ resp[1] = Response(400, MsgIdRequired, 0)
                  /\ StoreUnchanged

(* a PUT whose action is neither checkin nor checkout updated a booking *)
C22_Witness ==
    /\ pc[1] = "done"
    /\ req[1].api = "bookings"
    /\ req[1].method = "PUT"
    /\ req[1].action = "cancel"
    /\ resp[1] = Response(200, MsgUpdated, req[1].id)
    /\ bookings[req[1].id].status = "checked_in"

-----------------------------------------------------------------------------
(* Rate limits *)

(* C23: rateLimitMiddleware lets at most 100 requests of a key through to
   next() in one minute of the limiter; a request it does not let through is
   answered 429 with a Retry-After of at least one second, and is one of a
   key that used up its own 100 requests, whatever the other keys did; and no
   request of a key is let through in the 60 seconds after its limit was
   exceeded *)
C23_HundredPerKeyPerWindow ==
    /\ \A k \in Ips : passes[k].count <= 100
    /\ sent.by = "rateLimit" =>
          IF sent.next
            THEN /\ sent.code = 0
                 /\ passes[sent.ip].exceededAt = -1
            ELSE /\ sent.code = 429
                 /\ sent.retryAfter >= 1
                 /\ passes[sent.ip].count = 100
                 /\ passes[sent.ip].exceededAt # -1

(* client a is refused with Retry-After 1 less than a second before its
   block ends, while client b was let through in the same minute *)
C23_Witness ==
    /\ sent.by = "rateLimit"
    /\ sent.ip = "a"
    /\ sent.code = 429
    /\ sent.retryAfter = 1
    /\ now > passes["a"].exceededAt
    /\ passes["b"].count > 0
    /\ passes["b"].since >= passes["a"].since

(* C24: enhancedRateLimit lets the GET requests of a key through up to the
   30th of a minute and its POST, PUT and DELETE requests up to the 10th, and
   answers 429 from the 31st GET and the 11th write on *)
C24_ThirtyReadsTenWrites ==
    sent.by = "enhanced" =>
       IF sent.next
         THEN passes[sent.ip].reads <= 30 /\ passes[sent.ip].writes <= 10
         ELSE /\ sent.code = 429
              /\ IF sent.method \in WriteMethods
                   THEN passes[sent.ip].writes = 10
                   ELSE passes[sent.ip].reads = 30

-----------------------------------------------------------------------------
(* The response cache *)

(* C25: a request that is not a GET goes to next() and is neither answered
   from the cache nor cached; a GET is answered from the cache only with an
   entry of its key younger than 5 minutes, and goes to next() when the cache
   has no such entry; the cache never holds more than 100 entries, and the
   entry deleted to keep it so is one whose key was set no later than the key
   of any entry kept *)
C25_CacheGetOnly ==
    /\ Len(cache) <= 100
    /\ sent.by = "cache" =>
          /\ sent.method # "GET" => sent.next /\ ~sent.wrapped /\ sent.code = 0
          /\ (sent.method = "GET" /\ ~sent.next) =>
                /\ sent.code = 200
                /\ sent.data[1] = sent.key
                /\ sent.at - sent.data[2] < 300000
                /\ \E i \in 1..Len(cache) : cache[i].key = sent.key /\ cache[i].data = sent.data
          /\ sent.wrapped =>
                \A i \in 1..Len(cache) :
                   cache[i].key = sent.key => sent.at - cache[i].timestamp >= 300000
          /\ sent.evicted # <<>> =>
                /\ Len(cache) = 100
                /\ \A i \in 1..Len(cache) : cache[i].inserted >= sent.evicted[1].inserted

(* the entry deleted had been set again after it expired: it is the entry
   whose key was set first, and its body is later than bodies the cache
   keeps *)
C25_Witness ==
    /\ sent.by = "cache"
    /\ sent.evicted # <<>>
    /\ Len(cache) = 100
    /\ \E i \in 1..Len(cache) : cache[i].timestamp < sent.evicted[1].timestamp

-----------------------------------------------------------------------------
(* The timestamps of a booking *)

(* C31: with CreateBooking, CheckIn, CheckOut and CancelBooking run one at a
   time, every stored booking has actual_check_in set exactly when its status
   is checked_in or checked_out, and actual_check_out set exactly when its
   status is checked_out; a booked or cancelled booking has neither *)
C31_TimestampsFollowStatus ==
    \A i \in BookingIds :
       /\ bookings[i].actual_check_in # Null
             <=> bookings[i].status \in {"checked_in", "checked_out"}
       /\ bookings[i].actual_check_out # Null <=> bookings[i].status = "checked_out"

(* one booking was checked in and out and carries both timestamps, another
   was cancelled and carries none *)
C31_Witness ==
    \E i \in BookingIds : \E j \in BookingIds :
       /\ bookings[i].status = "checked_out"
       /\ bookings[i].actual_check_in = Timestamp
       /\ bookings[i].actual_check_out = Timestamp
       /\ bookings[j].status = "cancelled"
       /\ bookings[j].actual_check_in = Null
       /\ bookings[j].actual_check_out = Null

-----------------------------------------------------------------------------
(* Responses that report an error *)

(* C32: a booking operation whose primary write returned a store error
   answers 500, and every booking operation that answers with a 4xx or 5xx
   status leaves bookings, rooms and guests as they were before the request *)
C32_ErrorLeavesStoreUnchanged ==
    (pc[1] = "done" /\ req[1].api = "bookings") =>
       /\ resp[1].msg \in {MsgCreateFailed, MsgCheckInFailed, MsgCheckOutFailed,
                           MsgCancelFailed} => resp[1].code = 500
       /\ resp[1].code >= 400 => StoreUnchanged

-----------------------------------------------------------------------------
(* Delete guards whose query fails *)

(* C33: when the query for active bookings of DeleteGuest or DeleteRoom
   returned a store error, the deletion is not refused: the handler goes on
   to the delete, and when the delete succeeds the guest or room is removed
   and the answer is 200, bookings with status booked or checked_in that
   refer to it or not *)
C33_DeleteGuardsFailOpen ==
    /\ (req[1].api = "guests" /\ RowRoute(req[1]) = "delete" /\ loc[1].failed) =>
          /\ pc[1] \in {"dg_delete", "done"}
          /\ resp[1].msg # MsgGuestHasActive
          /\ pc[1] = "done" =>
                \/ resp[1] = Response(200, MsgGuestDeleted, req[1].id)
                      /\ guests = pre.guests \ {req[1].id}
                \/ resp[1] = Response(500, MsgGuestDeleteFailed, 0) /\ StoreUnchanged
    /\ (req[1].api = "rooms" /\ RowRoute(req[1]) = "delete" /\ loc[1].failed) =>
          /\ pc[1] \in {"dr_delete", "done"}
          /\ resp[1].msg # MsgRoomHasActive
          /\ pc[1] = "done" =>
                \/ resp[1] = Response(200, MsgRoomDeleted, req[1].id)
                      /\ DOMAIN rooms = DOMAIN pre.rooms \ {req[1].id}
                \/ resp[1] = Response(500, MsgRoomDeleteFailed, 0) /\ StoreUnchanged

(* a guest to whom a booked booking refers was deleted after the query of
   the guard had failed *)
C33_Witness ==
    /\ RowAnswered("guests", "delete")
    /\ loc[1].failed
    /\ resp[1].code = 200
    /\ PreActiveOfGuest # {}
    /\ req[1].id \in pre.guests
    /\ req[1].id \notin guests
    /\ \E i \in BookingIds : bookings[i].guest_id = req[1].id /\ bookings[i].status = "booked"

-----------------------------------------------------------------------------
(* Every request is answered and its invocation ends *)

(* C34: whatever the method, the query, the store and the outcomes of the
   store calls, a request the bookings handler received is answered, the
   response once sent is not followed by another, and the promise of the
   handler resolves *)
C34_AnsweredOnceAndResolved ==
    /\ [][resp[1].code # 0 => resp'[1] \in {resp[1], NoResp}]_vars
    /\ (pc[1] # "idle") ~> (pc[1] = "idle")

-----------------------------------------------------------------------------
(* Error bodies in the response cache *)

(* C35: the body a handler passes to res.json for a GET is stored under the
   key of the request whatever the status of the response, and a GET answered
   from the cache gets the stored body with status 200 without next() being
   called, also when the body was an error body answered with an error
   status; a GET goes to the handler only when no entry of its key is younger
   than 5 minutes *)
C35_ErrorBodiesCachedAndServed200 ==
    (sent.by = "cache" /\ sent.method = "GET") =>
       /\ (sent.next /\ ~sent.wrapped) =>
             /\ sent.code \in HandlerStatuses
             /\ sent.data[3] = sent.code
             /\ \E i \in 1..Len(cache) :
                   /\ cache[i].key = sent.key
                   /\ cache[i].data = sent.data
                   /\ cache[i].timestamp = sent.data[2]
       /\ ~sent.next =>
             /\ sent.code = 200
             /\ ~sent.wrapped
             /\ \E i \in 1..Len(cache) :
                   /\ cache[i].key = sent.key
                   /\ cache[i].data = sent.data
                   /\ sent.at - cache[i].timestamp < CACHE_TTL
       /\ sent.wrapped =>
             \A i \in 1..Len(cache) :
                cache[i].key = sent.key => sent.at - cache[i].timestamp >= CACHE_TTL

(* a GET is answered from the cache, later than the handler's answer and
   within 5 minutes of it, with status 200 and the body the handler had
   answered with status 500 *)
C35_Witness ==
    /\ sent.by = "cache"
    /\ sent.method = "GET"
    /\ ~sent.next
    /\ sent.code = 200
    /\ sent.data[3] = 500
    /\ sent.data[1] = sent.key
    /\ sent.at > sent.data[2]
    /\ sent.at - sent.data[2] < CACHE_TTL

====
